---- MODULE Spec2Model ----
(***************************************************************************)
(* A model of the visual state-detection engine of tsw_bot:                *)
(*   - utils.py: wait_for_image, _screen_changed, wait_and_click           *)
(*     (the Screen-State Detector and the Click-and-Verify Protocol),      *)
(*   - schedule_capture.py / service_loop.py: frames_match                 *)
(*     (the frame-difference primitive),                                   *)
(*   - service_loop.py: _count_visible_trains (the Run-Length Border       *)
(*     Scanner and the visible-entry count),                               *)
(*   - service_loop.py: count_trains, and navigator.py: click_train (the   *)
(*     Scroll Enumerator), over a train list that scrolls by whole entries *)
(*     and stops at its ends,                                              *)
(*   - schedule_capture.py: the capture loop of capture_schedule,          *)
(*     find_overlap, find_nearest_separator and stitch_images (the         *)
(*     Schedule Stitcher), crop_schedule and the phases of                 *)
(*     capture_schedule,                                                   *)
(*   - main.py: check_references and main (the startup check and the       *)
(*     itinerary),                                                         *)
(*   - service_loop.py: wait_for_level_load and process_all_services (the  *)
(*     service loop).                                                      *)
(* Each component has its own specification; the variables of the other    *)
(* components stay at their idle values.                                   *)
(***************************************************************************)
EXTENDS Integers, Sequences, FiniteSets

VARIABLES
    \* ---- utils.py: the caller's inputs and the environment
    timeout,        \* wait_for_image's timeout, seconds
    verify,         \* wait_and_click's verify flag
    refReadable,    \* whether the reference file can be read by cv2.imread
    \* ---- utils.py: the program's own state
    pc,             \* position in wait_and_click / wait_for_image / _screen_changed
    elapsed,        \* time.time() - start of the polling loop that is running
    attempts,       \* wait_for_image's poll counter
    best,           \* the last value _get_best_confidence returned (-1: none yet)
    location,       \* wait_and_click's location (0: None)
    attempt,        \* wait_and_click's for-loop variable
    result,         \* what wait_and_click returned: "pending", "True", "False", "raise"
    \* ---- the actuator: calls issued so far
    nMove, nDown, nUp,
    \* ---- history of the run (read by the properties only)
    wfiRet,         \* how wait_for_image ended: "pending", "loc", "none", "raise"
    pollStart,      \* elapsed when the last wait_for_image poll started (-1: none)
    absorbed,       \* not-found conditions wait_for_image absorbed
    scPolled,       \* _screen_changed has polled the screen
    scTimeouts,     \* verification windows that ended with the reference visible
    absentAt,       \* clicks issued when a verification poll first saw it absent (0: never)
    relocMissAt,    \* clicks issued when the re-locate step did not find it (0: never)
    faultSeen,      \* an unreadable reference was met by a matcher call
    \* ---- the frame-difference primitive: inputs, position, results
    impl,           \* which copy is applied: "schedule_capture" or "service_loop"
    frameA, frameB, \* two captures: [shape |-> <<h, w>>, px |-> the elements, flat]
    fpc,            \* "start", "forward" (a,b compared), "both" (b,a compared too)
    matchAB, matchBA,   \* frames_match(a, b) and frames_match(b, a)
    \* ---- the run-length border scanner: input, position, results
    row_has_border, \* the per-row boolean match mask of the strip
    rpc,            \* "scan", "scanned", "counted"
    r, in_run, run_start,   \* the loop's variables
    runs,           \* the runs found, each <<start, end>>
    entries,        \* the runs kept as real entries
    visible,        \* the visible-entry count returned
    \* ---- the train list on screen (the environment of count_trains / click_train)
    nTrains,        \* entries in the list
    viewSlots,      \* entries the scroll box shows at once
    ui,             \* "faithful": the capture shows the list and nothing else;
                    \* "restless": something else in the region changes as well
    listPos,        \* scroll position, in entries scrolled past the top
    noise,          \* what else the region shows at the moment
    \* ---- service_loop.count_trains
    cpc,            \* "start", "loop", "total", "done"
    calls,          \* which call of count_trains this is
    visible_count, prev_img, scrolls, total,    \* the locals of count_trains
    iter,           \* iterations of "for _ in range(30)" begun
    \* ---- history of count_trains (read by the properties only)
    startPos,       \* listPos when this call began
    lastCapture,    \* the frame _capture returned last
    changes,        \* captures of this call that differ from the capture before them
    forward,        \* forward scrolls issued in this call
    back,           \* units scrolled back in this call
    endedBy,        \* "match" (break) or "ceiling" (range exhausted)
    firstCapture,   \* the first frame of the first call
    firstTotal,     \* what the first call returned
    \* ---- navigator.click_train(index)
    spc,            \* "start", "loop", "done"
    index, scrolls_done, offset, click_x, click_y,  \* the argument and the locals
    seekIter,       \* iterations of "for _ in range(index)" completed
    stopped,        \* the loop was left by break
    seekDown, seekUp,   \* mouseDown / mouseUp calls issued
    \* ---- history of click_train (read by the properties only)
    seekStart,      \* listPos when click_train was called
    seekTop,        \* listPos after the scroll to the top
    seekForward,    \* unit scrolls issued
    seekChanges,    \* unit scrolls after which the region differed from before
    clickedAt,      \* where the pointer was at mouseDown: <<x, y>>
    \* ---- the schedule panel on screen (the environment of capture_schedule)
    panelEnd,       \* scrolls of scroll_schedule_down that still move the panel, from its top
    panelPos,       \* scrolls the panel has moved from its top
    panelUi,        \* "faithful" or "restless", as ui
    panelNoise,     \* what else the region shows at the moment
    \* ---- schedule_capture.capture_schedule: the capture loop
    cappc,          \* "loop", "stitch"
    frames,         \* the frames retained
    frame_idx,      \* the loop variable
    \* ---- history of the capture loop (read by the properties only)
    img,            \* the frame captured last
    capCaptures,    \* captures taken
    capScrolls,     \* scroll_schedule_down calls issued
    capEndedBy,     \* "match" (break) or "ceiling" (range exhausted)
    \* ---- schedule_capture.find_nearest_separator(img, target_row)
    sepImg,         \* img: its rows from the top, each row one colour <<r, g, b>>
    target_row,     \* the row the search starts from
    seppc,          \* "call", "done"
    sepResult,      \* the row returned
    \* ---- schedule_capture.stitch_images(images), with find_overlap
    images,         \* the frames, each the sequence of its rows
    stpc,           \* "start", "fold", "done"
    stitched,       \* result: the accumulator, "None" when there is none
    stitchIdx,      \* i, the loop variable
    overlap, sep_start, prev_sep,   \* the locals of the last fold step
    \* ---- history of stitch_images (read by the properties only)
    stitchedBefore, \* the accumulator before the last fold step
    \* ---- schedule_capture.crop_schedule(img)
    cropImg,        \* img: [rows, width], rows a sequence of <<colour, n>>
    croppc,         \* "call", "done"
    cropped,        \* the image returned
    \* ---- schedule_capture.capture_schedule(output_dir), around the loop
    schClicked,     \* what wait_and_click(config.REF_SCHEDULE) returned
    schStitched,    \* stitched: what stitch_images(frames) returned
    schCropped,     \* stitched_arr: what crop_schedule returned
    schSaved,       \* the images saved as 2_schedule.png, in order
    schReturn,      \* "-" (not returned), "None" or "2_schedule.png"
    \* ---- history of capture_schedule (read by the properties only)
    schEscapes,     \* pyautogui.press("escape") calls
    schPhases,      \* the phases entered, in order
    \* ---- main.main(), with check_references
    missing,        \* the reference templates whose file does not exist
    mainpc,         \* "check", "launch", "itinerary", "trains", "exited", "finished"
    step,           \* the itinerary step to run next (1..8)
    exitStatus,     \* the status of sys.exit or of the interpreter, -1 while running
    \* ---- history of main (read by the properties only)
    launched,       \* launch_game() has been called
    engineOps,      \* itinerary steps and train loops begun
    reported,       \* what the wait of the last itinerary step returned, "-" before any
    caught,         \* the exception main has caught, "none" before any
    \* ---- service_loop.wait_for_level_load(click_x, click_y), entered from
    \* ---- process_all_services after the two Enter presses
    click_given,    \* click_x and click_y are not None
    lvlpc,          \* "enter", "window", "get_started", "click", "returned", "raised"
    lvlAttempt,     \* attempt, the detection window
    found,          \* "None", "driver" or "get_started"
    click_attempt,  \* the attempt of the 'Get Started' click
    still_visible,  \* 'Get Started' was on screen after the last click
    \* ---- history of wait_for_level_load (read by the properties only)
    lastCall,       \* the last actuation or sleep call issued, "none" before any
    bare,           \* the pairs of actuation calls issued with no sleep between
    windows,        \* detection windows begun
    reclicks,       \* click_service_box calls
    driverClicks,   \* clicks on the driver screen
    startClicks,    \* clicks on 'Get Started'
    \* ---- process_all_services (service_loop.py)
    max_services,   \* the argument; -1 stands for None
    service_index,  \* services begun and not skipped as duplicates
    page,           \* pages scrolled past
    previous_screenshot, \* the page capture of the previous pass, or None
    prev_service_img,    \* the screenshot of the previous service box, or None
    boxI,           \* i of "for i in range(start_box, len(boxes))"
    svcpc,          \* "box", "load", "capture", "exit", "returned", "raised"
    \* ---- the service list of the game
    nServices,      \* entries of the list
    svcPos,         \* the entry shown in the first box
    svcUi,          \* "faithful": the list region shows the list only
    \* ---- history of process_all_services (read by the properties only)
    captureReturned, \* what the last capture_schedule call returned, "-" before any
    uiAt,           \* the screen the game shows: "service_list", "level", "main_menu", "menu"
    escapes,        \* Escape presses of _return_to_main_menu_from_menus
    folders,        \* the numbers n of the folders service_<n> under base_dir
    duplicates,     \* boxes skipped as duplicates
    levelsLoaded,   \* levels loaded
    loads           \* for each entry of the list, the times its level was loaded

clickVars == <<timeout, verify, refReadable, pc, elapsed, attempts, best, location,
               attempt, result, nMove, nDown, nUp, wfiRet, pollStart, absorbed,
               scPolled, scTimeouts, absentAt, relocMissAt, faultSeen>>

frameVars == <<impl, frameA, frameB, fpc, matchAB, matchBA>>

runVars == <<row_has_border, rpc, r, in_run, run_start, runs, entries, visible>>

listVars == <<nTrains, viewSlots, ui, listPos, noise>>

countVars == <<cpc, calls, visible_count, prev_img, scrolls, total, iter, startPos,
               lastCapture, changes, forward, back, endedBy, firstCapture, firstTotal>>

seekVars == <<spc, index, scrolls_done, offset, click_x, click_y, seekIter, stopped,
              seekDown, seekUp, seekStart, seekTop, seekForward, seekChanges,
              clickedAt>>

captureVars == <<panelEnd, panelPos, panelUi, panelNoise, cappc, frames, frame_idx,
                 img, capCaptures, capScrolls, capEndedBy>>

separatorVars == <<sepImg, target_row, seppc, sepResult>>

overlapVars == <<images, stpc, stitched, stitchIdx, overlap, sep_start, prev_sep,
                 stitchedBefore>>

cropVars == <<cropImg, croppc, cropped>>

scheduleVars == <<schClicked, schStitched, schCropped, schSaved, schReturn,
                  schEscapes, schPhases>>

mainVars == <<missing, mainpc, step, exitStatus, launched, engineOps, reported,
              caught>>

levelVars == <<click_given, lvlpc, lvlAttempt, found, click_attempt, still_visible,
               lastCall, bare, windows, reclicks, driverClicks, startClicks>>

serviceVars == <<max_services, service_index, page, previous_screenshot,
                 prev_service_img, boxI, svcpc, nServices, svcPos, svcUi,
                 captureReturned, uiAt, escapes, folders, duplicates,
                 levelsLoaded, loads>>

vars ==
    <<clickVars, frameVars, runVars, listVars, countVars, seekVars,
      captureVars, overlapVars, separatorVars, cropVars, scheduleVars,
      mainVars, levelVars, serviceVars>>

\* What the actions of one component leave alone: the other components.
otherThanClick ==
    <<frameVars, runVars, listVars, countVars, seekVars, captureVars,
      overlapVars, separatorVars, cropVars, scheduleVars, mainVars,
      levelVars, serviceVars>>
otherThanFrames ==
    <<clickVars, runVars, listVars, countVars, seekVars, captureVars,
      overlapVars, separatorVars, cropVars, scheduleVars, mainVars,
      levelVars, serviceVars>>
otherThanRuns ==
    <<clickVars, frameVars, listVars, countVars, seekVars, captureVars,
      overlapVars, separatorVars, cropVars, scheduleVars, mainVars,
      levelVars, serviceVars>>
otherThanCount ==
    <<clickVars, frameVars, runVars, seekVars, captureVars, overlapVars,
      separatorVars, cropVars, scheduleVars, mainVars, levelVars,
      serviceVars>>
otherThanSeek ==
    <<clickVars, frameVars, runVars, countVars, captureVars, overlapVars,
      separatorVars, cropVars, scheduleVars, mainVars, levelVars,
      serviceVars>>
otherThanCapture ==
    <<clickVars, frameVars, runVars, listVars, countVars, seekVars,
      overlapVars, separatorVars, cropVars, scheduleVars, mainVars,
      levelVars, serviceVars>>
otherThanOverlap ==
    <<clickVars, frameVars, runVars, listVars, countVars, seekVars,
      captureVars, separatorVars, cropVars, scheduleVars, mainVars,
      levelVars, serviceVars>>
otherThanSeparator ==
    <<clickVars, frameVars, runVars, listVars, countVars, seekVars,
      captureVars, overlapVars, cropVars, scheduleVars, mainVars,
      levelVars, serviceVars>>
otherThanCrop ==
    <<clickVars, frameVars, runVars, listVars, countVars, seekVars,
      captureVars, overlapVars, separatorVars, scheduleVars, mainVars,
      levelVars, serviceVars>>
otherThanSchedule ==
    <<clickVars, frameVars, runVars, listVars, countVars, seekVars,
      separatorVars, cropVars, mainVars, levelVars, serviceVars>>
otherThanMain ==
    <<clickVars, frameVars, runVars, listVars, countVars, seekVars,
      captureVars, overlapVars, separatorVars, cropVars, scheduleVars,
      levelVars, serviceVars>>
otherThanLevel ==
    <<clickVars, frameVars, runVars, listVars, countVars, seekVars,
      captureVars, overlapVars, separatorVars, cropVars, scheduleVars,
      mainVars, serviceVars>>
otherThanServices ==
    <<clickVars, frameVars, runVars, listVars, countVars, seekVars,
      captureVars, overlapVars, separatorVars, cropVars, scheduleVars,
      mainVars, levelVars>>

-----------------------------------------------------------------------------
(* Bounds of the model *)

\* wait_for_image is called with every timeout in 0..MaxTimeout
MaxTimeout == 5
\* one matcher call (a screen grab and a template match) takes 0..MaxLocateTime seconds
MaxLocateTime == 1
\* the screen positions a match can be reported at are 1..NumLocations
NumLocations == 2

(* Program constants *)

RETRY_MAX == 3
RETRY_WAIT == 30
\* wait_for_image's interval=1.0 and _screen_changed's check_interval=2.0
interval == 1
check_interval == 2

Locations == 1..NumLocations
LocateTimes == 0..MaxLocateTime
\* similarity scores, in hundredths
Scores == {0, 50, 100}

-----------------------------------------------------------------------------
(* The matcher, as the callers of utils.py see it *)

\* pyautogui.locateOnScreen: a location, None, ImageNotFoundException, or
\* (reference file unreadable) an IOError that is no ImageNotFoundException.
locateOnScreen(readable) ==
    IF readable
    THEN {<<"found", l>> : l \in Locations} \cup {<<"none", 0>>, <<"notfound", 0>>}
    ELSE {<<"fault", 0>>}

\* _get_best_confidence: 0.0 when cv2.imread returns None, else result.max()
get_best_confidence(readable, score) ==
    IF ~readable THEN 0 ELSE score

-----------------------------------------------------------------------------
(* utils.py: wait_and_click(image_path, timeout, confidence, interval,     *)
(* click_duration, verify), with wait_for_image and _screen_changed inline *)

\* the component at rest, in the specifications of the other components
FramesIdle ==
    /\ impl = "none"
    /\ frameA = <<>> /\ frameB = <<>>
    /\ fpc = "off"
    /\ matchAB = FALSE /\ matchBA = FALSE

RunsIdle ==
    /\ row_has_border = <<>>
    /\ rpc = "off"
    /\ r = 0 /\ in_run = FALSE /\ run_start = 0
    /\ runs = <<>>
    /\ entries = <<>>
    /\ visible = 0

ListIdle ==
    /\ nTrains = 0 /\ viewSlots = 0 /\ ui = "none" /\ listPos = 0 /\ noise = 0

CountIdle ==
    /\ cpc = "off" /\ calls = 0
    /\ visible_count = 0 /\ prev_img = <<>> /\ scrolls = 0 /\ total = 0 /\ iter = 0
    /\ startPos = 0 /\ lastCapture = <<>> /\ changes = 0 /\ forward = 0 /\ back = 0
    /\ endedBy = "none" /\ firstCapture = <<>> /\ firstTotal = 0

SeekIdle ==
    /\ spc = "off" /\ index = 0 /\ scrolls_done = 0 /\ offset = 0
    /\ click_x = 0 /\ click_y = 0 /\ seekIter = 0 /\ stopped = FALSE
    /\ seekDown = 0 /\ seekUp = 0
    /\ seekStart = 0 /\ seekTop = 0 /\ seekForward = 0 /\ seekChanges = 0
    /\ clickedAt = <<>>

CaptureIdle ==
    /\ panelEnd = 0 /\ panelPos = 0 /\ panelUi = "none" /\ panelNoise = 0
    /\ cappc = "off" /\ frames = <<>> /\ frame_idx = 0
    /\ img = <<>> /\ capCaptures = 0 /\ capScrolls = 0 /\ capEndedBy = "none"

SeparatorIdle ==
    /\ sepImg = <<>> /\ target_row = 0 /\ seppc = "off" /\ sepResult = 0

OverlapIdle ==
    /\ images = <<>> /\ stpc = "off" /\ stitched = <<>> /\ stitchIdx = 0
    /\ overlap = 0 /\ sep_start = 0 /\ prev_sep = 0 /\ stitchedBefore = <<>>

CropIdle ==
    /\ cropImg = <<>> /\ croppc = "off" /\ cropped = <<>>

ScheduleIdle ==
    /\ schClicked = FALSE /\ schStitched = <<>> /\ schCropped = <<>>
    /\ schSaved = <<>> /\ schReturn = "-" /\ schEscapes = 0 /\ schPhases = <<>>

MainIdle ==
    /\ missing = {} /\ mainpc = "off" /\ step = 0 /\ exitStatus = -1
    /\ launched = FALSE /\ engineOps = 0 /\ reported = "-" /\ caught = "none"

LevelIdle ==
    /\ click_given = FALSE /\ lvlpc = "off" /\ lvlAttempt = 0 /\ found = "None"
    /\ click_attempt = 0 /\ still_visible = FALSE /\ lastCall = "none"
    /\ bare = {} /\ windows = 0 /\ reclicks = 0 /\ driverClicks = 0
    /\ startClicks = 0

ServicesIdle ==
    /\ max_services = -1 /\ service_index = 0 /\ page = 0
    /\ previous_screenshot = [none |-> TRUE] /\ prev_service_img = [none |-> TRUE]
    /\ boxI = 0 /\ svcpc = "off" /\ nServices = 0 /\ svcPos = 0
    /\ svcUi = "faithful" /\ captureReturned = "-"
    /\ uiAt = "off" /\ escapes = 0 /\ folders = {} /\ duplicates = 0
    /\ levelsLoaded = 0 /\ loads = <<>>

inputs == <<timeout, verify>>
actuator == <<nMove, nDown, nUp>>
wfiHistory == <<wfiRet, pollStart, absorbed>>
verifyHistory == <<scPolled, scTimeouts, absentAt, relocMissAt>>

\* wait_and_click line 76 has called wait_for_image, which has set start and attempts
InitClick ==
    /\ timeout \in 0..MaxTimeout
    /\ verify \in BOOLEAN
    /\ refReadable \in BOOLEAN
    /\ pc = "wfi_loop"
    /\ elapsed = 0
    /\ attempts = 0
    /\ best = -1
    /\ location = 0
    /\ attempt = 0
    /\ result = "pending"
    /\ nMove = 0 /\ nDown = 0 /\ nUp = 0
    /\ wfiRet = "pending"
    /\ pollStart = -1
    /\ absorbed = 0
    /\ scPolled = FALSE
    /\ scTimeouts = 0
    /\ absentAt = 0
    /\ relocMissAt = 0
    /\ faultSeen = FALSE

\* an exception other than ImageNotFoundException leaves every frame of utils.py
Raise ==
    /\ result' = "raise"
    /\ pc' = "done"

\* wait_for_image_poll without the except clause of lines 32-33
wait_for_image_poll_no_except ==
    /\ pc = "wfi_loop"
    /\ elapsed < timeout
    /\ \E o \in locateOnScreen(refReadable), d \in LocateTimes :
        /\ pollStart' = elapsed
        /\ elapsed' = elapsed + d
        /\ CASE o[1] = "found" ->
                  /\ location' = o[2]
                  /\ wfiRet' = "loc"
                  /\ pc' = "wac_start"
                  /\ UNCHANGED <<absorbed, faultSeen, result>>
             [] o[1] = "none" ->
                  /\ pc' = "wfi_count"
                  /\ UNCHANGED <<location, wfiRet, absorbed, faultSeen, result>>
             [] o[1] = "notfound" ->
                  /\ wfiRet' = "raise"
                  /\ Raise
                  /\ UNCHANGED <<location, absorbed, faultSeen>>
             [] o[1] = "fault" ->
                  /\ faultSeen' = TRUE
                  /\ wfiRet' = "raise"
                  /\ Raise
                  /\ UNCHANGED <<location, absorbed>>
    /\ UNCHANGED <<inputs, refReadable, attempts, best, attempt, actuator,
                   verifyHistory, otherThanClick>>

\* wait_for_image lines 27-33: the loop test, then one locateOnScreen
wait_for_image_poll ==
    /\ pc = "wfi_loop"
    /\ elapsed < timeout
    /\ \E o \in locateOnScreen(refReadable), d \in LocateTimes :
        /\ pollStart' = elapsed
        /\ elapsed' = elapsed + d
        /\ CASE o[1] = "found" ->
                  /\ location' = o[2]
                  /\ wfiRet' = "loc"
                  /\ pc' = "wac_start"
                  /\ UNCHANGED <<absorbed, faultSeen, result>>
             [] o[1] = "none" ->
                  /\ pc' = "wfi_count"
                  /\ UNCHANGED <<location, wfiRet, absorbed, faultSeen, result>>
             [] o[1] = "notfound" ->
                  /\ absorbed' = absorbed + 1
                  /\ pc' = "wfi_count"
                  /\ UNCHANGED <<location, wfiRet, faultSeen, result>>
             [] o[1] = "fault" ->
                  /\ faultSeen' = TRUE
                  /\ wfiRet' = "raise"
                  /\ Raise
                  /\ UNCHANGED <<location, absorbed>>
    /\ UNCHANGED <<inputs, refReadable, attempts, best, attempt, actuator,
                   verifyHistory, otherThanClick>>

\* wait_for_image lines 34-39: count the poll, every 5th poll log the best
\* confidence, then sleep(interval)
wait_for_image_count ==
    /\ pc = "wfi_count"
    /\ attempts' = attempts + 1
    /\ IF attempts' % 5 = 0
       THEN \E s \in Scores, d \in LocateTimes :
               /\ best' = get_best_confidence(refReadable, s)
               /\ faultSeen' = (faultSeen \/ ~refReadable)
               /\ elapsed' = elapsed + d + interval
       ELSE /\ elapsed' = elapsed + interval
            /\ UNCHANGED <<best, faultSeen>>
    /\ pc' = "wfi_loop"
    /\ UNCHANGED <<inputs, refReadable, location, attempt, result, actuator,
                   wfiHistory, verifyHistory, otherThanClick>>

\* wait_for_image lines 27, 40-43: the deadline has passed; log and return None
wait_for_image_timeout ==
    /\ pc = "wfi_loop"
    /\ ~(elapsed < timeout)
    /\ \E s \in Scores :
        /\ best' = get_best_confidence(refReadable, s)
        /\ faultSeen' = (faultSeen \/ ~refReadable)
    /\ wfiRet' = "none"
    /\ location' = 0
    /\ pc' = "wac_start"
    /\ UNCHANGED <<inputs, refReadable, elapsed, attempts, attempt, result, actuator,
                   pollStart, absorbed, verifyHistory, otherThanClick>>

\* wait_and_click_start without the test of line 77
wait_and_click_start_no_test ==
    /\ pc = "wac_start"
    /\ attempt' = 1
    /\ pc' = "wac_moveTo"
    /\ UNCHANGED <<inputs, refReadable, elapsed, attempts, best, location, result,
                   actuator, wfiHistory, verifyHistory, faultSeen, otherThanClick>>

\* wait_and_click lines 76-82: absent is an immediate False, else enter the loop
wait_and_click_start ==
    /\ pc = "wac_start"
    /\ IF location = 0
       THEN /\ result' = "False"
            /\ pc' = "done"
            /\ UNCHANGED attempt
       ELSE /\ attempt' = 1
            /\ pc' = "wac_moveTo"
            /\ UNCHANGED result
    /\ UNCHANGED <<inputs, refReadable, elapsed, attempts, best, location, actuator,
                   wfiHistory, verifyHistory, faultSeen, otherThanClick>>

\* wait_and_click lines 83-85: pyautogui.moveTo(center)
wait_and_click_moveTo ==
    /\ pc = "wac_moveTo"
    /\ nMove' = nMove + 1
    /\ pc' = "wac_mouseDown"
    /\ UNCHANGED <<inputs, refReadable, elapsed, attempts, best, location, attempt,
                   result, nDown, nUp, wfiHistory, verifyHistory, faultSeen,
                   otherThanClick>>

\* wait_and_click lines 86-87: sleep(0.5); pyautogui.mouseDown()
wait_and_click_mouseDown ==
    /\ pc = "wac_mouseDown"
    /\ nDown' = nDown + 1
    /\ pc' = "wac_mouseUp"
    /\ UNCHANGED <<inputs, refReadable, elapsed, attempts, best, location, attempt,
                   result, nMove, nUp, wfiHistory, verifyHistory, faultSeen,
                   otherThanClick>>

\* wait_and_click lines 88-89: sleep(click_duration); pyautogui.mouseUp()
wait_and_click_mouseUp ==
    /\ pc = "wac_mouseUp"
    /\ nUp' = nUp + 1
    /\ pc' = "wac_verify"
    /\ UNCHANGED <<inputs, refReadable, elapsed, attempts, best, location, attempt,
                   result, nMove, nDown, wfiHistory, verifyHistory, faultSeen,
                   otherThanClick>>

\* wait_and_click_verify with the test of line 91 lost
wait_and_click_verify_always ==
    /\ pc = "wac_verify"
    /\ elapsed' = 0
    /\ pc' = "sc_loop"
    /\ UNCHANGED <<inputs, refReadable, attempts, best, location, attempt, result,
                   actuator, wfiHistory, verifyHistory, faultSeen, otherThanClick>>

\* wait_and_click lines 91-95: without verify return True, else call
\* _screen_changed, which sets its start (line 51)
wait_and_click_verify ==
    /\ pc = "wac_verify"
    /\ IF ~verify
       THEN /\ result' = "True"
            /\ pc' = "done"
            /\ UNCHANGED elapsed
       ELSE /\ elapsed' = 0
            /\ pc' = "sc_loop"
            /\ UNCHANGED result
    /\ UNCHANGED <<inputs, refReadable, attempts, best, location, attempt, actuator,
                   wfiHistory, verifyHistory, faultSeen, otherThanClick>>

\* screen_changed_poll with the return on absence lost: the poll goes on
screen_changed_poll_no_return ==
    /\ pc = "sc_loop"
    /\ elapsed < RETRY_WAIT
    /\ \E o \in locateOnScreen(refReadable), d \in LocateTimes :
        /\ elapsed' = elapsed + check_interval + d
        /\ scPolled' = TRUE
        /\ CASE o[1] = "found" ->
                  /\ pc' = "sc_loop"
                  /\ UNCHANGED <<result, absentAt, faultSeen>>
             [] o[1] \in {"none", "notfound"} ->
                  /\ absentAt' = nDown
                  /\ pc' = "sc_loop"
                  /\ UNCHANGED <<result, faultSeen>>
             [] o[1] = "fault" ->
                  /\ faultSeen' = TRUE
                  /\ Raise
                  /\ UNCHANGED absentAt
    /\ UNCHANGED <<inputs, refReadable, attempts, best, location, attempt, actuator,
                   wfiHistory, scTimeouts, relocMissAt, otherThanClick>>

\* _screen_changed lines 52-59 and wait_and_click lines 95-96: the loop test,
\* sleep(check_interval), one locateOnScreen; absent returns True all the way up
screen_changed_poll ==
    /\ pc = "sc_loop"
    /\ elapsed < RETRY_WAIT
    /\ \E o \in locateOnScreen(refReadable), d \in LocateTimes :
        /\ elapsed' = elapsed + check_interval + d
        /\ scPolled' = TRUE
        /\ CASE o[1] = "found" ->
                  /\ pc' = "sc_loop"
                  /\ UNCHANGED <<result, absentAt, faultSeen>>
             [] o[1] \in {"none", "notfound"} ->
                  /\ absentAt' = nDown
                  /\ result' = "True"
                  /\ pc' = "done"
                  /\ UNCHANGED faultSeen
             [] o[1] = "fault" ->
                  /\ faultSeen' = TRUE
                  /\ Raise
                  /\ UNCHANGED absentAt
    /\ UNCHANGED <<inputs, refReadable, attempts, best, location, attempt, actuator,
                   wfiHistory, scTimeouts, relocMissAt, otherThanClick>>

\* _screen_changed lines 52, 60: the window has passed with the image visible
screen_changed_timeout ==
    /\ pc = "sc_loop"
    /\ ~(elapsed < RETRY_WAIT)
    /\ scTimeouts' = scTimeouts + 1
    /\ pc' = "wac_retry"
    /\ UNCHANGED <<inputs, refReadable, elapsed, attempts, best, location, attempt,
                   result, actuator, wfiHistory, scPolled, absentAt, relocMissAt,
                   faultSeen, otherThanClick>>

\* wait_and_click_relocate with the test attempt <= RETRY_MAX
wait_and_click_relocate_one_more ==
    /\ pc = "wac_retry"
    /\ attempt <= RETRY_MAX
    /\ \E o \in locateOnScreen(refReadable) :
        CASE o[1] = "found" ->
               /\ location' = o[2]
               /\ attempt' = attempt + 1
               /\ pc' = "wac_moveTo"
               /\ UNCHANGED <<result, relocMissAt, faultSeen>>
          [] o[1] = "none" ->
               /\ relocMissAt' = nDown
               /\ attempt' = attempt + 1
               /\ pc' = "wac_moveTo"
               /\ UNCHANGED <<location, result, faultSeen>>
          [] o[1] = "notfound" ->
               /\ relocMissAt' = nDown
               /\ result' = "True"
               /\ pc' = "done"
               /\ UNCHANGED <<location, attempt, faultSeen>>
          [] o[1] = "fault" ->
               /\ faultSeen' = TRUE
               /\ Raise
               /\ UNCHANGED <<location, attempt, relocMissAt>>
    /\ UNCHANGED <<inputs, refReadable, elapsed, attempts, best, actuator,
                   wfiHistory, scPolled, scTimeouts, absentAt, otherThanClick>>

\* wait_and_click lines 99-108: before the last attempt, re-locate the image
wait_and_click_relocate ==
    /\ pc = "wac_retry"
    /\ attempt < RETRY_MAX
    /\ \E o \in locateOnScreen(refReadable) :
        CASE o[1] = "found" ->
               /\ location' = o[2]
               /\ attempt' = attempt + 1
               /\ pc' = "wac_moveTo"
               /\ UNCHANGED <<result, relocMissAt, faultSeen>>
          [] o[1] = "none" ->
               /\ relocMissAt' = nDown
               /\ attempt' = attempt + 1
               /\ pc' = "wac_moveTo"
               /\ UNCHANGED <<location, result, faultSeen>>
          [] o[1] = "notfound" ->
               /\ relocMissAt' = nDown
               /\ result' = "True"
               /\ pc' = "done"
               /\ UNCHANGED <<location, attempt, faultSeen>>
          [] o[1] = "fault" ->
               /\ faultSeen' = TRUE
               /\ Raise
               /\ UNCHANGED <<location, attempt, relocMissAt>>
    /\ UNCHANGED <<inputs, refReadable, elapsed, attempts, best, actuator,
                   wfiHistory, scPolled, scTimeouts, absentAt, otherThanClick>>

\* wait_and_click lines 109-112: the last attempt is still visible; give up
wait_and_click_give_up ==
    /\ pc = "wac_retry"
    /\ ~(attempt < RETRY_MAX)
    /\ result' = "False"
    /\ pc' = "done"
    /\ UNCHANGED <<inputs, refReadable, elapsed, attempts, best, location, attempt,
                   actuator, wfiHistory, verifyHistory, faultSeen, otherThanClick>>

\* the environment: the reference file is removed or made unreadable
reference_lost ==
    /\ pc # "done"
    /\ refReadable
    /\ refReadable' = FALSE
    /\ UNCHANGED <<inputs, pc, elapsed, attempts, best, location, attempt, result,
                   actuator, wfiHistory, verifyHistory, faultSeen, otherThanClick>>

NextClick ==
    \/ wait_for_image_poll
    \/ wait_for_image_count
    \/ wait_for_image_timeout
    \/ wait_and_click_start
    \/ wait_and_click_moveTo
    \/ wait_and_click_mouseDown
    \/ wait_and_click_mouseUp
    \/ wait_and_click_verify
    \/ screen_changed_poll
    \/ screen_changed_timeout
    \/ wait_and_click_relocate
    \/ wait_and_click_give_up
    \/ reference_lost

Init ==
    /\ InitClick
    /\ FramesIdle
    /\ RunsIdle
    /\ ListIdle
    /\ CountIdle
    /\ SeekIdle
    /\ CaptureIdle
    /\ OverlapIdle
    /\ SeparatorIdle
    /\ CropIdle
    /\ ScheduleIdle
    /\ MainIdle
    /\ LevelIdle
    /\ ServicesIdle

Spec == Init /\ [][NextClick]_vars

\* utils.py at rest, in the specifications of the other components
ClickIdle ==
    /\ timeout = 0 /\ verify = FALSE /\ refReadable = TRUE
    /\ pc = "off"
    /\ elapsed = 0 /\ attempts = 0 /\ best = -1 /\ location = 0 /\ attempt = 0
    /\ result = "pending"
    /\ nMove = 0 /\ nDown = 0 /\ nUp = 0
    /\ wfiRet = "pending" /\ pollStart = -1 /\ absorbed = 0
    /\ scPolled = FALSE /\ scTimeouts = 0 /\ absentAt = 0 /\ relocMissAt = 0
    /\ faultSeen = FALSE

-----------------------------------------------------------------------------
(* The frame-difference primitive: schedule_capture.frames_match and       *)
(* count_trains._frames_match (service_loop.py)                            *)

\* the elements of a capture are uint8; these levels are used
PixelLevels == {0, 4, 5, 255}
\* a capture holds at most MaxElements elements
MaxElements == 2

Shapes == {<<h, w>> : h \in 1..MaxElements, w \in 1..MaxElements}

Frames ==
    UNION {[shape : {sh}, px : [1..(sh[1] * sh[2]) -> PixelLevels]] :
             sh \in {x \in Shapes : x[1] * x[2] <= MaxElements}}

Abs(x) == IF x < 0 THEN -x ELSE x

RECURSIVE SumAbsDiff(_, _, _)
\* the sum over the first n elements of |a.astype(float) - b.astype(float)|
SumAbsDiff(a, b, n) ==
    IF n = 0 THEN 0 ELSE Abs(a[n] - b[n]) + SumAbsDiff(a, b, n - 1)

RECURSIVE SumWrappedDiff(_, _, _)
\* the sum over the first n elements of np.abs(a - b) computed in uint8
SumWrappedDiff(a, b, n) ==
    IF n = 0 THEN 0 ELSE ((a[n] - b[n]) % 256) + SumWrappedDiff(a, b, n - 1)

\* frames_match without astype(float): the difference wraps around
frames_match_uint8(a, b, threshold) ==
    IF a.shape # b.shape
    THEN FALSE
    ELSE SumWrappedDiff(a.px, b.px, Len(a.px)) < threshold * Len(a.px)

\* schedule_capture.frames_match(a, b, threshold): shapes equal and
\* np.mean(np.abs(a.astype(float) - b.astype(float))) < threshold
frames_match(a, b, threshold) ==
    IF a.shape # b.shape
    THEN FALSE
    ELSE SumAbsDiff(a.px, b.px, Len(a.px)) < threshold * Len(a.px)

\* count_trains._frames_match(a, b): the same with the threshold 5.0 written in
count_frames_match(a, b) ==
    IF a.shape # b.shape
    THEN FALSE
    ELSE SumAbsDiff(a.px, b.px, Len(a.px)) < 5 * Len(a.px)

\* frames_match's default threshold=5.0
FRAME_THRESHOLD == 5

\* the copy of the primitive that is being applied; the callers take
\* changed(a, b) to be its negation
FramesMatch(a, b) ==
    IF impl = "schedule_capture"
    THEN frames_match(a, b, FRAME_THRESHOLD)
    ELSE count_frames_match(a, b)

InitFrames ==
    /\ impl \in {"schedule_capture", "service_loop"}
    /\ frameA \in Frames
    /\ frameB \in Frames
    /\ fpc = "start"
    /\ matchAB = FALSE
    /\ matchBA = FALSE

\* the caller compares the previous capture with the current one
compare_forward ==
    /\ fpc = "start"
    /\ matchAB' = FramesMatch(frameA, frameB)
    /\ fpc' = "forward"
    /\ UNCHANGED <<impl, frameA, frameB, matchBA, otherThanFrames>>

\* the same comparison with the arguments exchanged
compare_backward ==
    /\ fpc = "forward"
    /\ matchBA' = FramesMatch(frameB, frameA)
    /\ fpc' = "both"
    /\ UNCHANGED <<impl, frameA, frameB, matchAB, otherThanFrames>>

NextFrames ==
    \/ compare_forward
    \/ compare_backward

InitFramesSpec ==
    /\ ClickIdle
    /\ InitFrames
    /\ RunsIdle
    /\ ListIdle
    /\ CountIdle
    /\ SeekIdle
    /\ CaptureIdle
    /\ OverlapIdle
    /\ SeparatorIdle
    /\ CropIdle
    /\ ScheduleIdle
    /\ MainIdle
    /\ LevelIdle
    /\ ServicesIdle

SpecFrames == InitFramesSpec /\ [][NextFrames]_vars

-----------------------------------------------------------------------------
(* The run-length border scanner and the visible-entry count:              *)
(* service_loop._count_visible_trains (the same loop is in                 *)
(* screenshot_service_box, navigator._detect_train_positions and           *)
(* test_train_count.count_visible_trains)                                  *)

\* min_entry_height = 40
min_entry_height == 40

\* a strip is built from at most MaxSegments segments of equal rows
MaxSegments == 4
\* the heights a segment can have
SegmentHeights == {1, min_entry_height - 1, min_entry_height}

RECURSIVE Rep(_, _)
\* n rows of value v
Rep(v, n) == IF n = 0 THEN <<>> ELSE <<v>> \o Rep(v, n - 1)

RECURSIVE Strips(_)
\* the masks made of at most k segments
Strips(k) ==
    IF k = 0
    THEN {<<>>}
    ELSE LET shorter == Strips(k - 1)
         IN  shorter \cup {m \o Rep(v, n) :
                             m \in shorter, v \in BOOLEAN, n \in SegmentHeights}

\* the strip of the test: border rows [10,20) and [50,95), 100 rows in all
ExampleStrip ==
    Rep(FALSE, 10) \o Rep(TRUE, 10) \o Rep(FALSE, 30) \o Rep(TRUE, 45) \o Rep(FALSE, 5)

RECURSIVE SelectTallerRuns(_, _)
SelectTallerRuns(rs, n) ==
    IF n = 0
    THEN <<>>
    ELSE IF rs[n][2] - rs[n][1] > min_entry_height
         THEN Append(SelectTallerRuns(rs, n - 1), rs[n])
         ELSE SelectTallerRuns(rs, n - 1)

\* real_entries with > for >=
real_entries_strict(rs) == SelectTallerRuns(rs, Len(rs))

RECURSIVE SelectRuns(_, _)
\* line 272: [(s, e) for s, e in runs if (e - s) >= min_entry_height],
\* over the first n runs
SelectRuns(rs, n) ==
    IF n = 0
    THEN <<>>
    ELSE IF rs[n][2] - rs[n][1] >= min_entry_height
         THEN Append(SelectRuns(rs, n - 1), rs[n])
         ELSE SelectRuns(rs, n - 1)

\* the real entries among the runs
real_entries(rs) == SelectRuns(rs, Len(rs))

\* lines 259-261: runs = [], in_run = False, run_start = 0, and the loop at row 0
InitRuns ==
    /\ row_has_border \in Strips(MaxSegments) \cup {ExampleStrip}
    /\ rpc = "scan"
    /\ r = 0
    /\ in_run = FALSE
    /\ run_start = 0
    /\ runs = <<>>
    /\ entries = <<>>
    /\ visible = 0

\* _count_visible_trains lines 262-268: one iteration of the loop over the rows
scan_row ==
    /\ rpc = "scan"
    /\ r < Len(row_has_border)
    /\ IF row_has_border[r + 1] /\ ~in_run
       THEN /\ run_start' = r
            /\ in_run' = TRUE
            /\ UNCHANGED runs
       ELSE IF ~row_has_border[r + 1] /\ in_run
            THEN /\ runs' = Append(runs, <<run_start, r>>)
                 /\ in_run' = FALSE
                 /\ UNCHANGED run_start
            ELSE UNCHANGED <<run_start, in_run, runs>>
    /\ r' = r + 1
    /\ UNCHANGED <<row_has_border, rpc, entries, visible, otherThanRuns>>

\* scan_close without lines 269-270
scan_close_forgotten ==
    /\ rpc = "scan"
    /\ ~(r < Len(row_has_border))
    /\ rpc' = "scanned"
    /\ UNCHANGED <<row_has_border, r, in_run, run_start, runs, entries, visible,
                   otherThanRuns>>

\* _count_visible_trains lines 269-270: after the loop, close the open run
scan_close ==
    /\ rpc = "scan"
    /\ ~(r < Len(row_has_border))
    /\ runs' = IF in_run THEN Append(runs, <<run_start, Len(row_has_border)>>) ELSE runs
    /\ rpc' = "scanned"
    /\ UNCHANGED <<row_has_border, r, in_run, run_start, entries, visible,
                   otherThanRuns>>

\* _count_visible_trains line 272
count_entries ==
    /\ rpc = "scanned"
    /\ entries' = real_entries(runs)
    /\ visible' = Len(entries')
    /\ rpc' = "counted"
    /\ UNCHANGED <<row_has_border, r, in_run, run_start, runs, otherThanRuns>>

NextRuns ==
    \/ scan_row
    \/ scan_close
    \/ count_entries

InitRunsSpec ==
    /\ ClickIdle
    /\ FramesIdle
    /\ InitRuns
    /\ ListIdle
    /\ CountIdle
    /\ SeekIdle
    /\ CaptureIdle
    /\ OverlapIdle
    /\ SeparatorIdle
    /\ CropIdle
    /\ ScheduleIdle
    /\ MainIdle
    /\ LevelIdle
    /\ ServicesIdle

SpecRuns == InitRunsSpec /\ [][NextRuns]_vars

-----------------------------------------------------------------------------
(* The distance of two captures, as the properties measure it *)

Larger(x, y) == IF x >= y THEN x ELSE y
Smaller(x, y) == IF x >= y THEN y ELSE x

RECURSIVE TotalDistance(_, _, _)
\* the sum of the element distances over the index set I
TotalDistance(a, b, I) ==
    IF I = {}
    THEN 0
    ELSE LET i == CHOOSE x \in I : TRUE
         IN  (Larger(a[i], b[i]) - Smaller(a[i], b[i])) + TotalDistance(a, b, I \ {i})

\* the mean absolute difference of two equal-shape frames is at least t
MeanDistanceAtLeast(a, b, t) ==
    TotalDistance(a.px, b.px, DOMAIN a.px) >= t * Len(a.px)

\* the frame-difference primitive says "changed" of two captures
Changed(a, b) == a.shape # b.shape \/ MeanDistanceAtLeast(a, b, 5)

-----------------------------------------------------------------------------
(* The train list on screen: a scroll box of viewSlots entries over a list *)
(* of nTrains, moved by pyautogui.scroll and read by screenshots of the    *)
(* TRAIN_BOX region                                                        *)

\* lists of 0..MaxTrains entries in scroll boxes of 1..MaxView entries
MaxTrains == 33
MaxView == 3

\* config.TRAIN_SCROLL_PER_BOX: the scroll amount that moves the list one entry down
TRAIN_SCROLL_PER_BOX == -310

\* the last scroll position: the list's end is at the bottom of the box
MaxPos == IF nTrains > viewSlots THEN nTrains - viewSlots ELSE 0

\* pyautogui.scroll(amount) over the list: it moves by whole entries and
\* stops at either end
scroll(p, amount) ==
    LET to == p + ((-amount) \div (-TRAIN_SCROLL_PER_BOX))
    IN  IF to < 0 THEN 0 ELSE IF to > MaxPos THEN MaxPos ELSE to

\* what else the region can show at the next screenshot
NoiseNow == IF ui = "restless" THEN {0, 1} ELSE {noise}

\* np.array(pyautogui.screenshot(region=TRAIN_BOX)): the pixels of the region
\* when the list is at position p; one entry of scroll, or a change of the
\* rest of the region, moves the mean by 16/3 levels
capture(p, n) ==
    [shape |-> <<1, 3>>, px |-> <<(p % 16) * 16, (p \div 16) * 16, n * 16>>]

\* _count_visible_trains(first_img) on a capture of this list
count_visible_trains == IF nTrains < viewSlots THEN nTrains ELSE viewSlots

InitList ==
    /\ nTrains \in 0..MaxTrains
    /\ viewSlots \in 1..MaxView
    /\ ui \in {"faithful", "restless"}
    /\ listPos \in 0..MaxPos
    /\ noise = 0

-----------------------------------------------------------------------------
(* service_loop.count_trains()                                             *)

\* "for _ in range(30)"
MAX_COUNT_SCROLLS == 30

InitCount ==
    /\ cpc = "start" /\ calls = 1
    /\ visible_count = 0 /\ prev_img = <<>> /\ scrolls = 0 /\ total = 0 /\ iter = 0
    /\ startPos = listPos /\ lastCapture = <<>> /\ changes = 0 /\ forward = 0 /\ back = 0
    /\ endedBy = "none" /\ firstCapture = <<>> /\ firstTotal = 0

\* the first frame with every slot of the box taken to hold an entry
count_trains_first_frame_full_box ==
    /\ cpc = "start"
    /\ \E n \in NoiseNow :
         LET first_img == capture(listPos, n)
         IN  /\ noise' = n
             /\ visible_count' = viewSlots
             /\ prev_img' = first_img
             /\ lastCapture' = first_img
             /\ firstCapture' = IF calls = 1 THEN first_img ELSE firstCapture
    /\ scrolls' = 0
    /\ iter' = 0
    /\ cpc' = "loop"
    /\ UNCHANGED <<nTrains, viewSlots, ui, listPos, calls, total, startPos, changes,
                   forward,
                   back, endedBy, firstTotal, otherThanCount>>

\* lines 294-301: the first capture, the visible count, prev_img and scrolls
count_trains_first_frame ==
    /\ cpc = "start"
    /\ \E n \in NoiseNow :
         LET first_img == capture(listPos, n)
         IN  /\ noise' = n
             /\ visible_count' = count_visible_trains
             /\ prev_img' = first_img
             /\ lastCapture' = first_img
             /\ firstCapture' = IF calls = 1 THEN first_img ELSE firstCapture
    /\ scrolls' = 0
    /\ iter' = 0
    /\ cpc' = "loop"
    /\ UNCHANGED <<nTrains, viewSlots, ui, listPos, calls, total, startPos, changes,
                   forward,
                   back, endedBy, firstTotal, otherThanCount>>

\* the loop body with the matching scroll counted like the others
count_trains_scroll_counts_all ==
    /\ cpc = "loop"
    /\ iter < MAX_COUNT_SCROLLS
    /\ listPos' = scroll(listPos, TRAIN_SCROLL_PER_BOX)
    /\ forward' = forward + 1
    /\ \E n \in NoiseNow :
         LET curr_img == capture(listPos', n)
         IN  /\ noise' = n
             /\ lastCapture' = curr_img
             /\ changes' = changes + (IF Changed(lastCapture, curr_img) THEN 1 ELSE 0)
             /\ scrolls' = scrolls + 1
             /\ IF count_frames_match(prev_img, curr_img)
                THEN /\ cpc' = "total"
                     /\ endedBy' = "match"
                     /\ UNCHANGED <<prev_img, iter>>
                ELSE /\ prev_img' = curr_img
                     /\ iter' = iter + 1
                     /\ UNCHANGED <<cpc, endedBy>>
    /\ UNCHANGED <<nTrains, viewSlots, ui, calls, visible_count, total, startPos,
                   back, firstCapture, firstTotal, otherThanCount>>

\* the loop body with one iteration more than range(30) has
count_trains_scroll_one_more ==
    /\ cpc = "loop"
    /\ iter <= MAX_COUNT_SCROLLS
    /\ listPos' = scroll(listPos, TRAIN_SCROLL_PER_BOX)
    /\ forward' = forward + 1
    /\ \E n \in NoiseNow :
         LET curr_img == capture(listPos', n)
         IN  /\ noise' = n
             /\ lastCapture' = curr_img
             /\ changes' = changes + (IF Changed(lastCapture, curr_img) THEN 1 ELSE 0)
             /\ IF count_frames_match(prev_img, curr_img)
                THEN /\ cpc' = "total"
                     /\ endedBy' = "match"
                     /\ UNCHANGED <<scrolls, prev_img, iter>>
                ELSE /\ scrolls' = scrolls + 1
                     /\ prev_img' = curr_img
                     /\ iter' = iter + 1
                     /\ UNCHANGED <<cpc, endedBy>>
    /\ UNCHANGED <<nTrains, viewSlots, ui, calls, visible_count, total, startPos,
                   back, firstCapture, firstTotal, otherThanCount>>

\* lines 303-313, one iteration: scroll one entry, capture, break when the
\* capture matches prev_img, else count the scroll and keep the capture
count_trains_scroll ==
    /\ cpc = "loop"
    /\ iter < MAX_COUNT_SCROLLS
    /\ listPos' = scroll(listPos, TRAIN_SCROLL_PER_BOX)
    /\ forward' = forward + 1
    /\ \E n \in NoiseNow :
         LET curr_img == capture(listPos', n)
         IN  /\ noise' = n
             /\ lastCapture' = curr_img
             /\ changes' = changes + (IF Changed(lastCapture, curr_img) THEN 1 ELSE 0)
             /\ IF count_frames_match(prev_img, curr_img)
                THEN /\ cpc' = "total"
                     /\ endedBy' = "match"
                     /\ UNCHANGED <<scrolls, prev_img, iter>>
                ELSE /\ scrolls' = scrolls + 1
                     /\ prev_img' = curr_img
                     /\ iter' = iter + 1
                     /\ UNCHANGED <<cpc, endedBy>>
    /\ UNCHANGED <<nTrains, viewSlots, ui, calls, visible_count, total, startPos,
                   back, firstCapture, firstTotal, otherThanCount>>

\* line 303: range(30) is exhausted
count_trains_ceiling ==
    /\ cpc = "loop"
    /\ iter >= MAX_COUNT_SCROLLS
    /\ cpc' = "total"
    /\ endedBy' = "ceiling"
    /\ UNCHANGED <<listVars, calls, visible_count, prev_img, scrolls, total, iter,
                   startPos, lastCapture, changes, forward, back, firstCapture, firstTotal,
                   otherThanCount>>

\* the return with a scroll back that is one unit short
count_trains_return_one_short ==
    /\ cpc = "total"
    /\ total' = visible_count + scrolls
    /\ IF scrolls > 1
       THEN /\ listPos' = scroll(listPos, (-TRAIN_SCROLL_PER_BOX) * (scrolls - 1))
            /\ back' = scrolls - 1
       ELSE UNCHANGED <<listPos, back>>
    /\ cpc' = "done"
    /\ UNCHANGED <<nTrains, viewSlots, ui, noise, calls, visible_count, prev_img,
                   scrolls, iter, startPos, lastCapture, changes, forward, endedBy, firstCapture,
                   firstTotal, otherThanCount>>

\* the return with no scroll back
count_trains_return_in_place ==
    /\ cpc = "total"
    /\ total' = visible_count + scrolls
    /\ cpc' = "done"
    /\ UNCHANGED <<listVars, calls, visible_count, prev_img, scrolls, iter, startPos,
                   lastCapture, changes, forward, back, endedBy, firstCapture, firstTotal,
                   otherThanCount>>

\* lines 315-325: total, the scroll back by scrolls units, return total
count_trains_return ==
    /\ cpc = "total"
    /\ total' = visible_count + scrolls
    /\ IF scrolls > 0
       THEN /\ listPos' = scroll(listPos, (-TRAIN_SCROLL_PER_BOX) * scrolls)
            /\ back' = scrolls
       ELSE UNCHANGED <<listPos, back>>
    /\ cpc' = "done"
    /\ UNCHANGED <<nTrains, viewSlots, ui, noise, calls, visible_count, prev_img,
                   scrolls, iter, startPos, lastCapture, changes, forward, endedBy, firstCapture,
                   firstTotal, otherThanCount>>

\* count_trains is called a second time on a list that has not changed,
\* at the position the first call left it at
count_trains_again ==
    /\ cpc = "done"
    /\ calls = 1
    /\ ui = "faithful"
    /\ calls' = 2
    /\ firstTotal' = total
    /\ cpc' = "start"
    /\ startPos' = listPos
    /\ visible_count' = 0 /\ prev_img' = <<>> /\ scrolls' = 0 /\ total' = 0
    /\ iter' = 0 /\ lastCapture' = <<>> /\ changes' = 0 /\ forward' = 0 /\ back' = 0
    /\ endedBy' = "none"
    /\ UNCHANGED <<listVars, firstCapture, otherThanCount>>

NextCount ==
    \/ count_trains_first_frame
    \/ count_trains_scroll
    \/ count_trains_ceiling
    \/ count_trains_return
    \/ count_trains_again

InitCountSpec ==
    /\ ClickIdle
    /\ FramesIdle
    /\ RunsIdle
    /\ InitList
    /\ InitCount
    /\ SeekIdle
    /\ CaptureIdle
    /\ OverlapIdle
    /\ SeparatorIdle
    /\ CropIdle
    /\ ScheduleIdle
    /\ MainIdle
    /\ LevelIdle
    /\ ServicesIdle

SpecCount == InitCountSpec /\ [][NextCount]_vars

-----------------------------------------------------------------------------
(* navigator.click_train(index)                                            *)

\* click_train is called with every index in 0..MaxIndex
MaxIndex == 8

\* config.py: the train scroll box and the layout of its entries
TRAIN_BOX_LEFT == 3218
TRAIN_BOX_TOP == 418
TRAIN_BOX_WIDTH == 450
TRAIN_BOX_HEIGHT == 472
TRAIN_FIRST_Y_OFFSET == 47
TRAIN_BOX_STRIDE == 94
\* "pyautogui.scroll(-config.TRAIN_SCROLL_PER_BOX * 30)"
TOP_OVERSCROLL == 30

\* line 210: np.mean(np.abs(before.astype(float) - after.astype(float))) < 5.0
region_unchanged(before, after) ==
    SumAbsDiff(before.px, after.px, Len(before.px)) < 5 * Len(before.px)

InitSeek ==
    /\ spc = "start"
    /\ index \in 0..MaxIndex
    /\ scrolls_done = 0 /\ offset = 0
    /\ click_x = 0 /\ click_y = 0 /\ seekIter = 0 /\ stopped = FALSE
    /\ seekDown = 0 /\ seekUp = 0
    /\ seekStart = listPos /\ seekTop = 0 /\ seekForward = 0 /\ seekChanges = 0
    /\ clickedAt = <<>>

\* the start with a scroll up of one unit only
click_train_to_top_one_unit ==
    /\ spc = "start"
    /\ click_x' = TRAIN_BOX_LEFT + (TRAIN_BOX_WIDTH \div 2)
    /\ listPos' = scroll(listPos, -TRAIN_SCROLL_PER_BOX)
    /\ seekTop' = listPos'
    /\ scrolls_done' = 0
    /\ spc' = "loop"
    /\ UNCHANGED <<nTrains, viewSlots, ui, noise, index, offset, click_y, seekIter,
                   stopped, seekDown, seekUp, seekStart, seekForward, seekChanges,
                   clickedAt, otherThanSeek>>

\* lines 188-201: click_x, the scroll to the top, scrolls_done = 0
click_train_to_top ==
    /\ spc = "start"
    /\ click_x' = TRAIN_BOX_LEFT + (TRAIN_BOX_WIDTH \div 2)
    /\ listPos' = scroll(listPos, (-TRAIN_SCROLL_PER_BOX) * TOP_OVERSCROLL)
    /\ seekTop' = listPos'
    /\ scrolls_done' = 0
    /\ spc' = "loop"
    /\ UNCHANGED <<nTrains, viewSlots, ui, noise, index, offset, click_y, seekIter,
                   stopped, seekDown, seekUp, seekStart, seekForward, seekChanges,
                   clickedAt, otherThanSeek>>

\* the loop body counting the scroll that did not move the list as well
click_train_scroll_counts_stop ==
    /\ spc = "loop" /\ ~stopped
    /\ seekIter < index
    /\ listPos' = scroll(listPos, TRAIN_SCROLL_PER_BOX)
    /\ seekForward' = seekForward + 1
    /\ \E n1 \in NoiseNow, n2 \in NoiseNow :
         LET before == capture(listPos, n1)
             after == capture(listPos', n2)
         IN  /\ noise' = n2
             /\ seekChanges' = seekChanges + (IF Changed(before, after) THEN 1 ELSE 0)
             /\ scrolls_done' = scrolls_done + 1
             /\ IF region_unchanged(before, after)
                THEN /\ stopped' = TRUE
                     /\ UNCHANGED seekIter
                ELSE /\ seekIter' = seekIter + 1
                     /\ UNCHANGED stopped
    /\ UNCHANGED <<nTrains, viewSlots, ui, spc, index, offset, click_x, click_y,
                   seekDown, seekUp, seekStart, seekTop, clickedAt, otherThanSeek>>

\* lines 202-213, one iteration: capture, scroll one entry, capture, break
\* when the region did not change, else count the scroll
click_train_scroll ==
    /\ spc = "loop" /\ ~stopped
    /\ seekIter < index
    /\ listPos' = scroll(listPos, TRAIN_SCROLL_PER_BOX)
    /\ seekForward' = seekForward + 1
    /\ \E n1 \in NoiseNow, n2 \in NoiseNow :
         LET before == capture(listPos, n1)
             after == capture(listPos', n2)
         IN  /\ noise' = n2
             /\ seekChanges' = seekChanges + (IF Changed(before, after) THEN 1 ELSE 0)
             /\ IF region_unchanged(before, after)
                THEN /\ stopped' = TRUE
                     /\ UNCHANGED <<scrolls_done, seekIter>>
                ELSE /\ scrolls_done' = scrolls_done + 1
                     /\ seekIter' = seekIter + 1
                     /\ UNCHANGED stopped
    /\ UNCHANGED <<nTrains, viewSlots, ui, spc, index, offset, click_x, click_y,
                   seekDown, seekUp, seekStart, seekTop, clickedAt, otherThanSeek>>

\* the click with the offset taken to be the index itself
click_train_click_at_index ==
    /\ spc = "loop"
    /\ stopped \/ seekIter >= index
    /\ offset' = index
    /\ click_y' = TRAIN_BOX_TOP + TRAIN_FIRST_Y_OFFSET + offset' * TRAIN_BOX_STRIDE
    /\ clickedAt' = <<click_x, click_y'>>
    /\ seekDown' = seekDown + 1
    /\ seekUp' = seekUp + 1
    /\ spc' = "done"
    /\ UNCHANGED <<listVars, index, scrolls_done, click_x, seekIter, stopped,
                   seekStart, seekTop, seekForward, seekChanges, otherThanSeek>>

\* lines 215-227, after the loop: offset, click_y, moveTo(click_x, click_y),
\* mouseDown, mouseUp
click_train_click ==
    /\ spc = "loop"
    /\ stopped \/ seekIter >= index
    /\ offset' = index - scrolls_done
    /\ click_y' = TRAIN_BOX_TOP + TRAIN_FIRST_Y_OFFSET + offset' * TRAIN_BOX_STRIDE
    /\ clickedAt' = <<click_x, click_y'>>
    /\ seekDown' = seekDown + 1
    /\ seekUp' = seekUp + 1
    /\ spc' = "done"
    /\ UNCHANGED <<listVars, index, scrolls_done, click_x, seekIter, stopped,
                   seekStart, seekTop, seekForward, seekChanges, otherThanSeek>>

NextSeek ==
    \/ click_train_to_top
    \/ click_train_scroll
    \/ click_train_click

InitSeekSpec ==
    /\ ClickIdle
    /\ FramesIdle
    /\ RunsIdle
    /\ InitList
    /\ CountIdle
    /\ InitSeek
    /\ CaptureIdle
    /\ OverlapIdle
    /\ SeparatorIdle
    /\ CropIdle
    /\ ScheduleIdle
    /\ MainIdle
    /\ LevelIdle
    /\ ServicesIdle

SpecSeek == InitSeekSpec /\ [][NextSeek]_vars

-----------------------------------------------------------------------------
(* schedule_capture.capture_schedule(output_dir): the capture loop, and    *)
(* the schedule panel it scrolls                                           *)

\* panels that scroll_schedule_down moves 0..MaxPanelEnd times
MaxPanelEnd == 3

\* "max_frames = 20"
max_frames == 20

\* capture_schedule_region(): the pixels of the SCHEDULE region when the
\* panel is at position p; a scroll, or a change of the rest of the region,
\* moves the mean by 16/3 levels
capture_schedule_region(p, n) ==
    [shape |-> <<1, 3>>, px |-> <<(p % 16) * 16, (p \div 16) * 16, n * 16>>]

\* scroll_schedule_down(): the panel moves one step down, or is at its end
scroll_schedule_down(p) == IF p < panelEnd THEN p + 1 ELSE p

InitCapture ==
    /\ panelEnd \in 0..MaxPanelEnd
    /\ panelPos \in 0..panelEnd
    /\ panelUi \in {"faithful", "restless"}
    /\ panelNoise = 0
    /\ cappc = "loop" /\ frames = <<>> /\ frame_idx = 0
    /\ img = <<>> /\ capCaptures = 0 /\ capScrolls = 0 /\ capEndedBy = "none"

\* the iteration with the frame retained before it is compared
capture_schedule_frame_retains_first ==
    /\ cappc = "loop"
    /\ frame_idx < max_frames
    /\ capCaptures' = capCaptures + 1
    /\ \E n \in (IF panelUi = "restless" THEN {0, 1} ELSE {panelNoise}) :
         /\ panelNoise' = n
         /\ img' = capture_schedule_region(panelPos, n)
    /\ frames' = Append(frames, img')
    /\ IF frames # <<>> /\ frames_match(frames[Len(frames)], img', FRAME_THRESHOLD)
       THEN /\ cappc' = "stitch"
            /\ capEndedBy' = "match"
            /\ UNCHANGED <<panelPos, capScrolls, frame_idx>>
       ELSE /\ panelPos' = scroll_schedule_down(panelPos)
            /\ capScrolls' = capScrolls + 1
            /\ frame_idx' = frame_idx + 1
            /\ cappc' = IF frame_idx' < max_frames THEN "loop" ELSE "stitch"
            /\ capEndedBy' = IF frame_idx' < max_frames THEN "none" ELSE "ceiling"
    /\ UNCHANGED <<panelEnd, panelUi, otherThanCapture>>

\* lines 213-225, one iteration of "for frame_idx in range(max_frames)":
\* capture, break when the capture matches the last retained frame, else
\* retain it and scroll down
capture_schedule_frame ==
    /\ cappc = "loop"
    /\ frame_idx < max_frames
    /\ capCaptures' = capCaptures + 1
    /\ \E n \in (IF panelUi = "restless" THEN {0, 1} ELSE {panelNoise}) :
         /\ panelNoise' = n
         /\ img' = capture_schedule_region(panelPos, n)
    /\ IF frames # <<>> /\ frames_match(frames[Len(frames)], img', FRAME_THRESHOLD)
       THEN /\ cappc' = "stitch"
            /\ capEndedBy' = "match"
            /\ UNCHANGED <<frames, panelPos, capScrolls, frame_idx>>
       ELSE /\ frames' = Append(frames, img')
            /\ panelPos' = scroll_schedule_down(panelPos)
            /\ capScrolls' = capScrolls + 1
            /\ frame_idx' = frame_idx + 1
            /\ cappc' = IF frame_idx' < max_frames THEN "loop" ELSE "stitch"
            /\ capEndedBy' = IF frame_idx' < max_frames THEN "none" ELSE "ceiling"
    /\ UNCHANGED <<panelEnd, panelUi, otherThanCapture>>

NextCapture == capture_schedule_frame

InitCaptureSpec ==
    /\ ClickIdle
    /\ FramesIdle
    /\ RunsIdle
    /\ ListIdle
    /\ CountIdle
    /\ SeekIdle
    /\ InitCapture
    /\ OverlapIdle
    /\ SeparatorIdle
    /\ CropIdle
    /\ ScheduleIdle
    /\ MainIdle
    /\ LevelIdle
    /\ ServicesIdle

SpecCapture == InitCaptureSpec /\ [][NextCapture]_vars

-----------------------------------------------------------------------------
(* schedule_capture.py: is_separator_row and find_nearest_separator.       *)
(* An image is the sequence of its rows from the top (row 0 is element 1); *)
(* every row is of one colour <<r, g, b>> over its whole width.            *)

\* images of ImageRows rows with separator bands of up to MaxBandRows rows
ImageRows == 60
MaxBandRows == 3

\* "SEPARATOR_RGB = np.array([0x13, 0x2c, 0x39])", "SEPARATOR_TOL = 20"
SEPARATOR_RGB == <<19, 44, 57>>
SEPARATOR_TOL == 20
\* find_nearest_separator's search_range=50
search_range == 50

\* the colours of the rows: the separator colour, a colour at the tolerance
\* from it, a colour one level outside the tolerance, and a box colour
SeparatorColour == SEPARATOR_RGB
NearSeparatorColour == <<39, 64, 37>>
DarkColour == <<40, 44, 57>>
BoxColour == <<197, 228, 233>>

\* is_separator_row(img, row): more than 0.3 of the pixels of the central
\* part of the row are within SEPARATOR_TOL of SEPARATOR_RGB on every
\* channel; on a row of one colour that is all of them or none
is_separator_row(image, row) ==
    \A c \in 1..3 : Abs(image[row + 1][c] - SEPARATOR_RGB[c]) <= SEPARATOR_TOL

RECURSIVE nearest_down_first_from(_, _, _, _)
\* the search with the row below tried before the row above
nearest_down_first_from(image, target, range, off) ==
    IF off >= range
    THEN target
    ELSE IF 0 <= target + off /\ target + off < Len(image)
              /\ is_separator_row(image, target + off)
         THEN target + off
         ELSE IF 0 <= target - off /\ target - off < Len(image)
                   /\ is_separator_row(image, target - off)
              THEN target - off
              ELSE nearest_down_first_from(image, target, range, off + 1)

RECURSIVE nearest_separator_from(_, _, _, _)
\* lines 82-86, from "offset" off on: for each offset the row above, then
\* the row below; the first one inside the image that is a separator row
nearest_separator_from(image, target, range, off) ==
    IF off >= range
    THEN target
    ELSE IF 0 <= target - off /\ target - off < Len(image)
              /\ is_separator_row(image, target - off)
         THEN target - off
         ELSE IF 0 <= target + off /\ target + off < Len(image)
                   /\ is_separator_row(image, target + off)
              THEN target + off
              ELSE nearest_separator_from(image, target, range, off + 1)

find_nearest_separator_down_first(image, target, range) ==
    nearest_down_first_from(image, target, range, 0)

\* find_nearest_separator(img, target_row, search_range)
find_nearest_separator(image, target, range) ==
    nearest_separator_from(image, target, range, 0)

\* an image with a band of k separator rows from row a on, a single row of
\* the near-separator colour at row b, and content everywhere else
SeparatorImage(a, k, b) ==
    [i \in 1..ImageRows |->
        IF a <= i - 1 /\ i - 1 < a + k THEN SeparatorColour
        ELSE IF i - 1 = b THEN NearSeparatorColour
        ELSE IF i % 2 = 0 THEN BoxColour ELSE DarkColour]

\* the rows the search is started from: inside the image, at its edges, and
\* outside it up to the search range and beyond
TargetRows ==
    {-search_range, 1 - search_range, -3, 0, 7, 30, ImageRows - 1, ImageRows,
     ImageRows + search_range - 2, ImageRows + search_range - 1}

InitSeparator ==
    /\ \E a \in 0..(ImageRows - 1), k \in 0..MaxBandRows, b \in -1..(ImageRows - 1) :
         sepImg = SeparatorImage(a, k, b)
    /\ target_row \in TargetRows
    /\ seppc = "call"
    /\ sepResult = 0

find_nearest_separator_call ==
    /\ seppc = "call"
    /\ sepResult' = find_nearest_separator(sepImg, target_row, search_range)
    /\ seppc' = "done"
    /\ UNCHANGED <<sepImg, target_row, otherThanSeparator>>

NextSeparator == find_nearest_separator_call

InitSeparatorSpec ==
    /\ ClickIdle
    /\ FramesIdle
    /\ RunsIdle
    /\ ListIdle
    /\ CountIdle
    /\ SeekIdle
    /\ CaptureIdle
    /\ OverlapIdle
    /\ InitSeparator
    /\ CropIdle
    /\ ScheduleIdle
    /\ MainIdle
    /\ LevelIdle
    /\ ServicesIdle

SpecSeparator == InitSeparatorSpec /\ [][NextSeparator]_vars

-----------------------------------------------------------------------------
(* schedule_capture.py: find_overlap and stitch_images                     *)

\* frames of FrameRows rows, 0..MaxStitchFrames of them, each cut from one
\* document 0..MaxShift rows below the frame before it
FrameRows == 48
MaxStitchFrames == 2
MaxShift == 5

\* find_overlap's band_height=40 and "band_start = 5"
band_height == 40
band_start == 5

\* the sum over the channels of |x - y| for two rows of one colour each
RowDistance(x, y) == Abs(x[1] - y[1]) + Abs(x[2] - y[2]) + Abs(x[3] - y[3])

RECURSIVE strip_diff(_, _, _, _)
\* lines 53-54: np.abs(strip - band) summed over the first n rows of the
\* band, strip being prev_img[row : row + band_height] and band being
\* curr_img[band_start : band_start + band_height]; np.mean divides the
\* sum over band_height rows by 3 * band_height times the width
strip_diff(prev, curr, row, n) ==
    IF n = 0
    THEN 0
    ELSE RowDistance(prev[row + n], curr[band_start + n])
           + strip_diff(prev, curr, row, n - 1)

RECURSIVE best_match_last(_, _, _, _, _)
\* the loop keeping the last of the rows with the least difference
best_match_last(prev, curr, row, best_row, best_diff) ==
    IF row >= Len(prev) - band_height
    THEN <<best_row, best_diff>>
    ELSE LET diff == strip_diff(prev, curr, row, band_height)
         IN  IF best_row = -1 \/ diff <= best_diff
             THEN best_match_last(prev, curr, row + 1, row, diff)
             ELSE best_match_last(prev, curr, row + 1, best_row, best_diff)

RECURSIVE best_match(_, _, _, _, _)
\* lines 49-57, from "row" on: <<best_row, best_diff>> after the loop
\* "for row in range(0, h - band_height)"; best_row = -1 stands for
\* best_diff = inf
best_match(prev, curr, row, best_row, best_diff) ==
    IF row >= Len(prev) - band_height
    THEN <<best_row, best_diff>>
    ELSE LET diff == strip_diff(prev, curr, row, band_height)
         IN  IF best_row = -1 \/ diff < best_diff
             THEN best_match(prev, curr, row + 1, row, diff)
             ELSE best_match(prev, curr, row + 1, best_row, best_diff)

find_overlap_last_row(prev, curr) ==
    LET b == best_match_last(prev, curr, 0, -1, 0)
    IN  IF b[1] # -1 /\ b[2] < 5 * 3 * band_height
        THEN Len(prev) - b[1] + band_start
        ELSE 0

\* find_overlap(prev_img, curr_img): "if best_diff < 5.0" on the mean
find_overlap(prev, curr) ==
    LET b == best_match(prev, curr, 0, -1, 0)
    IN  IF b[1] # -1 /\ b[2] < 5 * 3 * band_height
        THEN Len(prev) - b[1] + band_start
        ELSE 0

\* a[:n] and a[n:] on the rows of an image, n of either sign
rows_before(a, n) ==
    LET k == IF n < 0
             THEN (IF Len(a) + n < 0 THEN 0 ELSE Len(a) + n)
             ELSE (IF n > Len(a) THEN Len(a) ELSE n)
    IN  SubSeq(a, 1, k)

rows_from(a, n) ==
    LET k == IF n < 0
             THEN (IF Len(a) + n < 0 THEN 0 ELSE Len(a) + n)
             ELSE (IF n > Len(a) THEN Len(a) ELSE n)
    IN  SubSeq(a, k + 1, Len(a))

\* row i of the document the frames are cut from: its rows all differ
\* ("distinct") or are all of the box colour ("plain"), but for a band of k
\* separator rows from row a on
DocumentRow(kind, a, k, i) ==
    IF a <= i /\ i < a + k THEN SeparatorColour
    ELSE IF kind = "plain" THEN BoxColour
    ELSE LET g == 100 + ((i * 47) % 150) IN <<g, g, g>>

\* capture_schedule_region() with the document scrolled by "top" rows; glow
\* is added to every element of the capture
Frame(kind, a, k, top, glow) ==
    [i \in 1..FrameRows |->
        LET c == DocumentRow(kind, a, k, top + i - 1)
        IN  <<c[1] + glow, c[2] + glow, c[3] + glow>>]

\* the captures stitched: <<kind, a, k, shift, glow>>, the document, the
\* rows scrolled between two frames, and the glow of every second frame;
\* the last input is a pair of frames that share 30 rows, with a separator
\* line on row 12 of the second
StitchInputs ==
    {<<kind, a, k, shift, 0>> :
        kind \in {"distinct", "plain"}, a \in -1..(FrameRows + MaxShift - 1),
        k \in 1..MaxBandRows, shift \in 0..MaxShift}
    \cup {<<"distinct", -1, 1, shift, glow>> : shift \in 0..MaxShift, glow \in {4, 5}}
    \cup {<<"distinct", FrameRows - 30 + 12, 1, FrameRows - 30, 0>>}

InitOverlap ==
    /\ \E in \in StitchInputs, n \in 0..MaxStitchFrames :
         images = [j \in 1..n |->
                      Frame(in[1], in[2], in[3], (j - 1) * in[4],
                            IF j % 2 = 0 THEN in[5] ELSE 0)]
    /\ stpc = "start" /\ stitched = <<>> /\ stitchIdx = 0
    /\ overlap = 0 /\ sep_start = 0 /\ prev_sep = 0 /\ stitchedBefore = <<>>

\* lines 109-114: no image, one image, or result = images[0]
stitch_images_start ==
    /\ stpc = "start"
    /\ IF Len(images) = 0
       THEN /\ stitched' = "None"
            /\ stpc' = "done"
            /\ UNCHANGED stitchIdx
       ELSE /\ stitched' = images[1]
            /\ stitchIdx' = 1
            /\ stpc' = IF Len(images) = 1 THEN "done" ELSE "fold"
    /\ UNCHANGED <<images, overlap, sep_start, prev_sep, stitchedBefore,
                   otherThanOverlap>>

\* lines 116-137, one iteration of "for i in range(1, len(images))"
stitch_images_fold ==
    /\ stpc = "fold"
    /\ stitchIdx < Len(images)
    /\ stitchedBefore' = stitched
    /\ overlap' = find_overlap(images[stitchIdx], images[stitchIdx + 1])
    /\ IF overlap' > 0
       THEN /\ sep_start' = find_nearest_separator(images[stitchIdx + 1], overlap',
                                                   search_range)
            /\ prev_sep' = find_nearest_separator(stitched,
                               Len(stitched) - overlap' + sep_start', search_range)
            /\ stitched' = rows_before(stitched, prev_sep')
                             \o rows_from(images[stitchIdx + 1], sep_start')
       ELSE /\ stitched' = stitched \o images[stitchIdx + 1]
            /\ UNCHANGED <<sep_start, prev_sep>>
    /\ stitchIdx' = stitchIdx + 1
    /\ stpc' = IF stitchIdx' < Len(images) THEN "fold" ELSE "done"
    /\ UNCHANGED <<images, otherThanOverlap>>

NextOverlap ==
    \/ stitch_images_start
    \/ stitch_images_fold

InitOverlapSpec ==
    /\ ClickIdle
    /\ FramesIdle
    /\ RunsIdle
    /\ ListIdle
    /\ CountIdle
    /\ SeekIdle
    /\ CaptureIdle
    /\ InitOverlap
    /\ SeparatorIdle
    /\ CropIdle
    /\ ScheduleIdle
    /\ MainIdle
    /\ LevelIdle
    /\ ServicesIdle

SpecOverlap == InitOverlapSpec /\ [][NextOverlap]_vars

-----------------------------------------------------------------------------
(* schedule_capture.py: crop_schedule                                      *)

\* images of 0..MaxCropRows rows
MaxCropRows == 4

\* "SCHEDULE_MAX_WIDTH = 1470" and config.SCHEDULE_COLOR_TOLERANCE
SCHEDULE_MAX_WIDTH == 1470
SCHEDULE_COLOR_TOLERANCE == 20

\* BOX_COLORS: config.SCHEDULE_BOTTOM_BORDER_RGB, config.SCHEDULE_TOP_BORDER_RGB
BOX_COLORS == <<BoxColour, <<5, 151, 68>>>>

\* the pixels of the central strip of a row, img[row, w // 10 : w - w // 10],
\* counted in tenths of the strip: a row <<colour, n>> has n tenths of its
\* strip in that colour and the rest black
StripTenths == 10
Black == <<0, 0, 0>>

\* lines 157-159, for one colour of BOX_COLORS: the share of the strip's
\* pixels within tol of the colour on every channel is more than 0.3
strip_matches(row, color) ==
    LET within(px) == \A c \in 1..3 : Abs(px[c] - color[c]) <= SCHEDULE_COLOR_TOLERANCE
        matching == (IF within(row[1]) THEN row[2] ELSE 0)
                      + (IF within(Black) THEN StripTenths - row[2] ELSE 0)
    IN  10 * matching > 3 * StripTenths

RECURSIVE last_box_row_from(_, _, _)
\* lines 156-163, from "row" on, last being last_box_row before the
\* iteration: a matching row sets last_box_row = row + 1, and the loop is
\* left when "last_box_row < img.shape[0]"
last_box_row_from(image, row, last) ==
    IF row < 0
    THEN last
    ELSE LET matched == \E k \in 1..Len(BOX_COLORS) :
                            strip_matches(image.rows[row + 1], BOX_COLORS[k])
             now == IF matched THEN row + 1 ELSE last
         IN  IF now < Len(image.rows)
             THEN now
             ELSE last_box_row_from(image, row - 1, now)

\* crop_schedule(img): line 155 sets last_box_row = img.shape[0], line 165
\* keeps the rows before last_box_row and the first SCHEDULE_MAX_WIDTH columns
crop_schedule(image) ==
    [rows  |-> rows_before(image.rows,
                           last_box_row_from(image, Len(image.rows) - 1, Len(image.rows))),
     width |-> IF image.width < SCHEDULE_MAX_WIDTH THEN image.width ELSE SCHEDULE_MAX_WIDTH]

\* the rows of the images cropped: box rows of either colour, a row at the
\* edge of the tolerance and one just outside it, a row with 0.3 of its
\* strip in the box colour, and a blank row
CropRowKinds ==
    {<<BoxColour, 4>>, <<BOX_COLORS[2], StripTenths>>, <<<<217, 208, 253>>, 4>>,
     <<<<218, 228, 233>>, StripTenths>>, <<BoxColour, 3>>, <<<<255, 255, 255>>, StripTenths>>}

CropWidths == {SCHEDULE_MAX_WIDTH - 1, SCHEDULE_MAX_WIDTH, SCHEDULE_MAX_WIDTH + 1}

InitCrop ==
    /\ \E h \in 0..MaxCropRows, w \in CropWidths :
         \E rows \in [1..h -> CropRowKinds] :
             cropImg = [rows |-> rows, width |-> w]
    /\ croppc = "call" /\ cropped = <<>>

crop_schedule_call ==
    /\ croppc = "call"
    /\ cropped' = crop_schedule(cropImg)
    /\ croppc' = "done"
    /\ UNCHANGED <<cropImg, otherThanCrop>>

NextCrop == crop_schedule_call

InitCropSpec ==
    /\ ClickIdle
    /\ FramesIdle
    /\ RunsIdle
    /\ ListIdle
    /\ CountIdle
    /\ SeekIdle
    /\ CaptureIdle
    /\ OverlapIdle
    /\ SeparatorIdle
    /\ InitCrop
    /\ ScheduleIdle
    /\ MainIdle
    /\ LevelIdle
    /\ ServicesIdle

SpecCrop == InitCropSpec /\ [][NextCrop]_vars

-----------------------------------------------------------------------------
(* schedule_capture.py: capture_schedule, the steps around the capture     *)
(* loop. The loop is capture_schedule_frame. Beside capture_schedule,      *)
(* stitch_images is called on no frame and on one frame (its lines         *)
(* 109-112), which the loop itself never hands over.                       *)

\* the capture component before capture_schedule is entered
InitCaptureClosed ==
    /\ panelEnd \in 0..MaxPanelEnd
    /\ panelPos \in 0..panelEnd
    /\ panelUi \in {"faithful", "restless"}
    /\ panelNoise = 0
    /\ cappc = "open" /\ frames = <<>> /\ frame_idx = 0
    /\ img = <<>> /\ capCaptures = 0 /\ capScrolls = 0 /\ capEndedBy = "none"

InitSchedule ==
    /\ schClicked = FALSE /\ schStitched = <<>> /\ schCropped = <<>>
    /\ schSaved = <<>> /\ schReturn = "-" /\ schEscapes = 0 /\ schPhases = <<>>

\* a call of stitch_images on no frame or on one frame
InitStitchCall ==
    /\ \E top \in 0..MaxShift, n \in 0..1 :
         images = [j \in 1..n |-> Frame("distinct", -1, 1, top, 0)]
    /\ stpc = "start" /\ stitched = <<>> /\ stitchIdx = 0
    /\ overlap = 0 /\ sep_start = 0 /\ prev_sep = 0 /\ stitchedBefore = <<>>

\* "return None" of stitch_images, as a value that compares with an image
None == [none |-> TRUE]

\* stitch_images(frames) as capture_schedule sees it: lines 109-112, and
\* for two frames or more the image folded from them (lines 114-139)
stitch_images(imgs) ==
    IF Len(imgs) = 0 THEN None
    ELSE IF Len(imgs) = 1 THEN imgs[1]
    ELSE [stitched |-> imgs]

\* the closing Escape pressed also when the Schedule button was not found
capture_schedule_open_closes ==
    /\ cappc = "open"
    /\ \E clicked \in BOOLEAN :
         /\ schClicked' = clicked
         /\ IF clicked
            THEN /\ cappc' = "loop"
                 /\ schEscapes' = schEscapes + 1
                 /\ schPhases' = <<"CAPTURING">>
                 /\ UNCHANGED schReturn
            ELSE /\ cappc' = "returned"
                 /\ schEscapes' = schEscapes + 2
                 /\ schReturn' = "None"
                 /\ UNCHANGED schPhases
    /\ frames' = <<>>
    /\ UNCHANGED <<panelEnd, panelPos, panelUi, panelNoise, frame_idx, img,
                   capCaptures, capScrolls, capEndedBy, schStitched, schCropped,
                   schSaved, overlapVars, otherThanSchedule>>

\* lines 195-210: Escape, wait_and_click on the Schedule button, "return
\* None" when it returns False, else "frames = []" before the loop
capture_schedule_open ==
    /\ cappc = "open"
    /\ schEscapes' = schEscapes + 1
    /\ \E clicked \in BOOLEAN :
         /\ schClicked' = clicked
         /\ IF clicked
            THEN /\ cappc' = "loop"
                 /\ schPhases' = <<"CAPTURING">>
                 /\ UNCHANGED schReturn
            ELSE /\ cappc' = "returned"
                 /\ schReturn' = "None"
                 /\ UNCHANGED schPhases
    /\ frames' = <<>>
    /\ UNCHANGED <<panelEnd, panelPos, panelUi, panelNoise, frame_idx, img,
                   capCaptures, capScrolls, capEndedBy, schStitched, schCropped,
                   schSaved, overlapVars, otherThanSchedule>>

\* lines 227-233: stitch_images(frames), "return None" when it is None
capture_schedule_stitch ==
    /\ cappc = "stitch"
    /\ schStitched' = stitch_images(frames)
    /\ schPhases' = Append(schPhases, "STITCHING")
    /\ IF schStitched' = None
       THEN /\ cappc' = "returned"
            /\ schReturn' = "None"
       ELSE /\ cappc' = "crop"
            /\ UNCHANGED schReturn
    /\ UNCHANGED <<panelEnd, panelPos, panelUi, panelNoise, frames, frame_idx, img,
                   capCaptures, capScrolls, capEndedBy, schClicked, schCropped,
                   schSaved, schEscapes, overlapVars, otherThanSchedule>>

\* lines 235-238: stitched_arr = crop_schedule(np.array(stitched))
capture_schedule_crop ==
    /\ cappc = "crop"
    /\ schCropped' = [cropped |-> schStitched]
    /\ schPhases' = Append(schPhases, "CROPPING")
    /\ cappc' = "save"
    /\ UNCHANGED <<panelEnd, panelPos, panelUi, panelNoise, frames, frame_idx, img,
                   capCaptures, capScrolls, capEndedBy, schClicked, schStitched,
                   schSaved, schReturn, schEscapes, overlapVars, otherThanSchedule>>

\* the stitched image saved as it was before the crop
capture_schedule_save_uncropped ==
    /\ cappc = "save"
    /\ schSaved' = Append(schSaved, schStitched)
    /\ schEscapes' = schEscapes + 1
    /\ schReturn' = "2_schedule.png"
    /\ schPhases' = Append(schPhases, "DONE")
    /\ cappc' = "returned"
    /\ UNCHANGED <<panelEnd, panelPos, panelUi, panelNoise, frames, frame_idx, img,
                   capCaptures, capScrolls, capEndedBy, schClicked, schStitched,
                   schCropped, overlapVars, otherThanSchedule>>

\* lines 240-248: stitched.save(output_path), the closing Escape, and
\* "return output_path"
capture_schedule_save ==
    /\ cappc = "save"
    /\ schSaved' = Append(schSaved, schCropped)
    /\ schEscapes' = schEscapes + 1
    /\ schReturn' = "2_schedule.png"
    /\ schPhases' = Append(schPhases, "DONE")
    /\ cappc' = "returned"
    /\ UNCHANGED <<panelEnd, panelPos, panelUi, panelNoise, frames, frame_idx, img,
                   capCaptures, capScrolls, capEndedBy, schClicked, schStitched,
                   schCropped, overlapVars, otherThanSchedule>>

NextSchedule ==
    \/ capture_schedule_open
    \/ capture_schedule_frame
    \/ capture_schedule_stitch
    \/ capture_schedule_crop
    \/ capture_schedule_save
    \/ stitch_images_start

InitScheduleSpec ==
    /\ ClickIdle
    /\ FramesIdle
    /\ RunsIdle
    /\ ListIdle
    /\ CountIdle
    /\ SeekIdle
    /\ InitCaptureClosed
    /\ InitStitchCall
    /\ SeparatorIdle
    /\ CropIdle
    /\ InitSchedule
    /\ MainIdle
    /\ LevelIdle
    /\ ServicesIdle

SpecSchedule == InitScheduleSpec /\ [][NextSchedule]_vars

-----------------------------------------------------------------------------
(* main.py: check_references and main                                      *)

\* at most MaxMissing of the template files are missing
MaxMissing == 2

\* config.py, "Reference image paths" and REF_SCHEDULE
Templates ==
    {"warning_continue", "splash_continue", "to_the_trains", "choose_a_route",
     "choose_a_route_screen", "route_filter", "timetable", "class_filter",
     "exit_to_main_menu", "get_started", "get_started_2", "driver", "driver_1",
     "schedule"}

\* check_references: the list "required"
required ==
    {"warning_continue", "splash_continue", "to_the_trains", "choose_a_route",
     "choose_a_route_screen", "route_filter", "timetable", "class_filter",
     "exit_to_main_menu", "get_started", "driver"}

\* the templates the engine passes to wait_and_click, wait_for_image or
\* locateOnScreen, and whether os.path.isfile guards the use
TemplateUses ==
    {[template |-> "warning_continue", guarded |-> FALSE],       \* navigator.py:26
     [template |-> "splash_continue", guarded |-> FALSE],        \* navigator.py:35
     [template |-> "to_the_trains", guarded |-> FALSE],          \* navigator.py:44
     [template |-> "choose_a_route", guarded |-> FALSE],         \* navigator.py:53
     [template |-> "choose_a_route_screen", guarded |-> FALSE],  \* navigator.py:62
     [template |-> "route_filter", guarded |-> FALSE],           \* navigator.py:77
     [template |-> "timetable", guarded |-> FALSE],              \* navigator.py:100
     [template |-> "class_filter", guarded |-> FALSE],           \* navigator.py:114
     [template |-> "schedule", guarded |-> FALSE],               \* schedule_capture.py:202
     [template |-> "exit_to_main_menu", guarded |-> FALSE],      \* service_loop.py:236
     [template |-> "to_the_trains", guarded |-> FALSE],          \* service_loop.py:338
     [template |-> "driver", guarded |-> TRUE],                  \* service_loop.py:107-111
     [template |-> "driver_1", guarded |-> TRUE],
     [template |-> "get_started", guarded |-> TRUE],             \* service_loop.py:126-130, 175
     [template |-> "get_started_2", guarded |-> TRUE]}

\* main, lines 56-63: the template each step of the itinerary waits for
Itinerary ==
    <<"warning_continue", "splash_continue", "to_the_trains", "choose_a_route",
      "choose_a_route_screen", "route_filter", "timetable", "class_filter">>

InitMain ==
    /\ missing \in {m \in SUBSET Templates : Cardinality(m) <= MaxMissing}
    /\ mainpc = "check" /\ step = 0 /\ exitStatus = -1
    /\ launched = FALSE /\ engineOps = 0 /\ reported = "-" /\ caught = "none"

\* main, lines 49-50, with check_references: sys.exit(1) when a required
\* file is missing
check_references ==
    /\ mainpc = "check"
    /\ IF required \cap missing # {}
       THEN /\ mainpc' = "exited"
            /\ exitStatus' = 1
       ELSE /\ mainpc' = "launch"
            /\ UNCHANGED exitStatus
    /\ UNCHANGED <<missing, step, launched, engineOps, reported, caught,
                   otherThanMain>>

\* main, lines 52-55: launch_game()
launch_game ==
    /\ mainpc = "launch"
    /\ launched' = TRUE
    /\ mainpc' = "itinerary"
    /\ step' = 1
    /\ UNCHANGED <<missing, exitStatus, engineOps, reported, caught,
                   otherThanMain>>

\* the call each step of the itinerary waits with: wait_for_route_screen
\* calls wait_for_image, the other steps call wait_and_click
step_call(k) ==
    IF Itinerary[k] = "choose_a_route_screen" THEN "wait_for_image" ELSE "wait_and_click"

\* what the call returns when the template is seen, or not
step_result(k, seen) ==
    IF step_call(k) = "wait_for_image"
    THEN (IF seen THEN "location" ELSE "None")
    ELSE (IF seen THEN "True" ELSE "False")

\* one step of the itinerary that goes on after its wait reported absence
itinerary_step_goes_on ==
    /\ mainpc = "itinerary"
    /\ engineOps' = engineOps + 1
    /\ \E seen \in (IF Itinerary[step] \in missing THEN {FALSE} ELSE BOOLEAN) :
         /\ reported' = step_result(step, seen)
         /\ step' = step + 1
         /\ mainpc' = IF step' > Len(Itinerary) THEN "trains" ELSE "itinerary"
         /\ UNCHANGED <<exitStatus, caught>>
    /\ UNCHANGED <<missing, launched, otherThanMain>>

\* main, lines 56-63 and 68-72: one step of the itinerary; the step raises
\* TimeoutError when its wait reports absence (wait_and_click returned
\* False, wait_for_image returned None), a missing file makes
\* locateOnScreen fail; main catches TimeoutError and exits with status 1
itinerary_step ==
    /\ mainpc = "itinerary"
    /\ engineOps' = engineOps + 1
    /\ \E seen \in (IF Itinerary[step] \in missing THEN {FALSE} ELSE BOOLEAN) :
         /\ reported' = step_result(step, seen)
         /\ IF seen
            THEN /\ step' = step + 1
                 /\ mainpc' = IF step' > Len(Itinerary) THEN "trains" ELSE "itinerary"
                 /\ UNCHANGED <<exitStatus, caught>>
            ELSE /\ mainpc' = "exited"
                 /\ exitStatus' = 1
                 /\ caught' = "TimeoutError"
                 /\ UNCHANGED step
    /\ UNCHANGED <<missing, launched, otherThanMain>>

\* main, lines 66-72: process_all_trains() returns, or raises TimeoutError,
\* or fails on a template whose file is missing
process_all_trains ==
    /\ mainpc = "trains"
    /\ engineOps' = engineOps + 1
    /\ \E outcome \in {"returned", "TimeoutError"}
                       \cup (IF missing # {} THEN {"fault"} ELSE {}) :
         IF outcome = "returned"
         THEN /\ mainpc' = "finished"
              /\ exitStatus' = 0
              /\ UNCHANGED caught
         ELSE /\ mainpc' = "exited"
              /\ exitStatus' = 1
              /\ caught' = IF outcome = "TimeoutError" THEN "TimeoutError" ELSE "none"
    /\ UNCHANGED <<missing, step, launched, reported, otherThanMain>>

\* main, lines 73-75: KeyboardInterrupt inside the try block
keyboard_interrupt ==
    /\ mainpc \in {"launch", "itinerary", "trains"}
    /\ mainpc' = "exited"
    /\ exitStatus' = 0
    /\ caught' = "KeyboardInterrupt"
    /\ UNCHANGED <<missing, step, launched, engineOps, reported, otherThanMain>>

NextMain ==
    \/ check_references
    \/ launch_game
    \/ itinerary_step
    \/ process_all_trains
    \/ keyboard_interrupt

InitMainSpec ==
    /\ ClickIdle
    /\ FramesIdle
    /\ RunsIdle
    /\ ListIdle
    /\ CountIdle
    /\ SeekIdle
    /\ CaptureIdle
    /\ OverlapIdle
    /\ SeparatorIdle
    /\ CropIdle
    /\ ScheduleIdle
    /\ InitMain
    /\ LevelIdle
    /\ ServicesIdle

SpecMain == InitMainSpec /\ [][NextMain]_vars

-----------------------------------------------------------------------------
(* service_loop.py: wait_for_level_load, with _check_for_level_screen and  *)
(* click_service_box, entered as process_all_services enters it. The issued *)
(* that act on the game (pyautogui.moveTo, mouseDown, mouseUp, press) and  *)
(* time.sleep are issued in the order of the code.                         *)

\* moveTo, mouseDown and mouseUp with the sleeps between and after them
\* (lines 115-120, 198-203)
click_calls == <<"moveTo", "sleep", "mouseDown", "sleep", "mouseUp", "sleep">>

\* click_service_box(x, y), lines 89-97: it ends with the second Enter
click_service_box == <<"moveTo", "sleep", "mouseDown", "sleep", "mouseUp", "sleep",
                       "press", "sleep", "press">>

\* the last call issued after the calls issued
last_of(issued) == IF issued = <<>> THEN lastCall ELSE issued[Len(issued)]

\* the pairs of issued other than sleep that follow each other in the calls issued,
\* the first of them following lastCall
bare_in(issued) ==
    LET s == <<lastCall>> \o issued
    IN  {<<s[k], s[k + 1]>> : k \in {j \in 1..(Len(s) - 1) :
            s[j] \notin {"sleep", "none"} /\ s[j + 1] # "sleep"}}

InitLevel ==
    /\ click_given \in BOOLEAN
    /\ lvlpc = "enter" /\ lvlAttempt = 0 /\ found = "None"
    /\ click_attempt = 0 /\ still_visible = FALSE
    /\ lastCall = "sleep"
    /\ bare = {} /\ windows = 0 /\ reclicks = 0 /\ driverClicks = 0
    /\ startClicks = 0

\* process_all_services, lines 456-463: Enter twice, then
\* wait_for_level_load(click_x=x, click_y=y)
load_level ==
    /\ lvlpc = "enter"
    /\ LET issued == <<"press", "sleep", "press">>
       IN  /\ bare' = bare \cup bare_in(issued)
           /\ lastCall' = last_of(issued)
    /\ lvlpc' = "window"
    /\ lvlAttempt' = 1
    /\ UNCHANGED <<click_given, found, click_attempt, still_visible, windows,
                   reclicks, driverClicks, startClicks, otherThanLevel>>

\* the window with the service box clicked again whether or not coordinates were given
wait_for_level_load_window_blind_reclick ==
    /\ lvlpc = "window"
    /\ windows' = windows + 1
    /\ \E seen \in {"None", "driver", "get_started"}, first \in BOOLEAN :
         /\ seen = "None" => ~first
         /\ found' = seen
         /\ LET reclick == seen = "None" /\ lvlAttempt < RETRY_MAX
                issued == (IF first THEN <<>> ELSE <<"sleep">>)
                           \o (IF seen = "driver" THEN click_calls ELSE <<>>)
                           \o (IF reclick THEN click_service_box ELSE <<>>)
           IN  /\ bare' = bare \cup bare_in(issued)
               /\ lastCall' = last_of(issued)
               /\ reclicks' = reclicks + (IF reclick THEN 1 ELSE 0)
         /\ driverClicks' = driverClicks + (IF seen = "driver" THEN 1 ELSE 0)
         /\ IF seen # "None"
            THEN /\ lvlpc' = "get_started"
                 /\ UNCHANGED lvlAttempt
            ELSE IF lvlAttempt < RETRY_MAX
                 THEN /\ lvlpc' = "window"
                      /\ lvlAttempt' = lvlAttempt + 1
                 ELSE /\ lvlpc' = "raised"
                      /\ UNCHANGED lvlAttempt
    /\ UNCHANGED <<click_given, click_attempt, still_visible, startClicks,
                   otherThanLevel>>

\* lines 147-171, one iteration of "for attempt in range(1, RETRY_MAX + 1)":
\* the window of RETRY_WAIT seconds polls _check_for_level_screen, which
\* sees the driver screen (and clicks it), the 'Get Started' screen, or
\* neither, at its first poll or after the sleep of an earlier poll; with
\* neither, the service box is clicked again or TimeoutError is raised
wait_for_level_load_window ==
    /\ lvlpc = "window"
    /\ windows' = windows + 1
    /\ \E seen \in {"None", "driver", "get_started"}, first \in BOOLEAN :
         /\ seen = "None" => ~first
         /\ found' = seen
         /\ LET reclick == seen = "None" /\ lvlAttempt < RETRY_MAX /\ click_given
                issued == (IF first THEN <<>> ELSE <<"sleep">>)
                           \o (IF seen = "driver" THEN click_calls ELSE <<>>)
                           \o (IF reclick THEN click_service_box ELSE <<>>)
           IN  /\ bare' = bare \cup bare_in(issued)
               /\ lastCall' = last_of(issued)
               /\ reclicks' = reclicks + (IF reclick THEN 1 ELSE 0)
         /\ driverClicks' = driverClicks + (IF seen = "driver" THEN 1 ELSE 0)
         /\ IF seen # "None"
            THEN /\ lvlpc' = "get_started"
                 /\ UNCHANGED lvlAttempt
            ELSE IF lvlAttempt < RETRY_MAX
                 THEN /\ lvlpc' = "window"
                      /\ lvlAttempt' = lvlAttempt + 1
                 ELSE /\ lvlpc' = "raised"
                      /\ UNCHANGED lvlAttempt
    /\ UNCHANGED <<click_given, click_attempt, still_visible, startClicks,
                   otherThanLevel>>

\* lines 173-192: wait up to SCREEN_TIMEOUT for either 'Get Started'
\* reference, raise TimeoutError when none is located
wait_for_level_load_get_started ==
    /\ lvlpc = "get_started"
    /\ \E located \in BOOLEAN, first \in BOOLEAN :
         /\ ~located => ~first
         /\ LET issued == IF first THEN <<>> ELSE <<"sleep">>
            IN  /\ bare' = bare \cup bare_in(issued)
                /\ lastCall' = last_of(issued)
         /\ IF located
            THEN /\ lvlpc' = "click"
                 /\ click_attempt' = 1
            ELSE /\ lvlpc' = "raised"
                 /\ UNCHANGED click_attempt
    /\ UNCHANGED <<click_given, lvlAttempt, found, still_visible, windows,
                   reclicks, driverClicks, startClicks, otherThanLevel>>

\* lines 195-226, one iteration of "for click_attempt in range(1,
\* RETRY_MAX + 1)": click 'Get Started', look whether it is still visible;
\* after the loop, by break or by exhaustion, sleep and return
wait_for_level_load_click ==
    /\ lvlpc = "click"
    /\ startClicks' = startClicks + 1
    /\ \E shown \in BOOLEAN :
         /\ still_visible' = shown
         /\ LET over == ~shown \/ click_attempt >= RETRY_MAX
                issued == click_calls \o (IF over THEN <<"sleep">> ELSE <<>>)
            IN  /\ bare' = bare \cup bare_in(issued)
                /\ lastCall' = last_of(issued)
                /\ lvlpc' = IF over THEN "returned" ELSE "click"
                /\ click_attempt' = IF over THEN click_attempt ELSE click_attempt + 1
    /\ UNCHANGED <<click_given, lvlAttempt, found, windows, reclicks,
                   driverClicks, otherThanLevel>>

NextLevel ==
    \/ load_level
    \/ wait_for_level_load_window
    \/ wait_for_level_load_get_started
    \/ wait_for_level_load_click

InitLevelSpec ==
    /\ ClickIdle
    /\ FramesIdle
    /\ RunsIdle
    /\ ListIdle
    /\ CountIdle
    /\ SeekIdle
    /\ CaptureIdle
    /\ OverlapIdle
    /\ SeparatorIdle
    /\ CropIdle
    /\ ScheduleIdle
    /\ MainIdle
    /\ InitLevel
    /\ ServicesIdle

SpecLevel == InitLevelSpec /\ [][NextLevel]_vars

-----------------------------------------------------------------------------
(* process_all_services (service_loop.py): the services of one train, page by
   page and box by box.  The game's service list has nServices entries and
   shows them from entry svcPos on in the boxes of the list region. *)

MaxServices == 10
MaxLimit == 2
MaxPages == 3
MaxServiceIndex == 24

SERVICE_LIST_TOP == 335
SERVICE_LIST_BOTTOM == 912
SERVICE_BOX_HEIGHT == 59
SERVICE_BOX_STRIDE == 71
SCROLL_PER_BOX == -268

\* get_visible_service_boxes(): one box per stride while the box fits in the
\* list region; the number of boxes from y on
RECURSIVE get_visible_service_boxes(_)
get_visible_service_boxes(y) ==
    IF y + SERVICE_BOX_HEIGHT <= SERVICE_LIST_BOTTOM
    THEN 1 + get_visible_service_boxes(y + SERVICE_BOX_STRIDE)
    ELSE 0

visibleBoxes == get_visible_service_boxes(SERVICE_LIST_TOP)

\* scroll_service_list_down() with the list at entry p: pyautogui.scroll by
\* SCROLL_PER_BOX * (visible_count - 1); the list moves one entry per
\* SCROLL_PER_BOX and stops at its end
scroll_service_list_down(p) ==
    LET scroll_clicks == SCROLL_PER_BOX * (visibleBoxes - 1)
        to == p + (scroll_clicks \div SCROLL_PER_BOX)
        last == IF nServices > visibleBoxes THEN nServices - visibleBoxes ELSE 0
    IN  IF to > last THEN last ELSE to

\* "for _ in range(page): scroll_service_list_down()" from entry p
RECURSIVE scroll_back(_, _)
scroll_back(p, n) ==
    IF n = 0 THEN p ELSE scroll_back(scroll_service_list_down(p), n - 1)

\* screenshot_service_box(service_dir, y) of box i: the entry shown there, or
\* the empty background below the end of the list
screenshot_service_box(i) ==
    IF svcPos + i < nServices
    THEN capture(svcPos + i, 0)
    ELSE [shape |-> <<1, 3>>, px |-> <<255, 255, 255>>]

\* _service_is_duplicate(service_dir, prev_service_img)
_service_is_duplicate(curr_img) ==
    IF prev_service_img = None
    THEN FALSE
    ELSE IF curr_img.shape # prev_service_img.shape
    THEN FALSE
    ELSE SumAbsDiff(curr_img.px, prev_service_img.px, Len(curr_img.px))
             < 5 * Len(curr_img.px)

\* the counters of the unbounded page loop are kept up to a bound
upTo(n, bound) == IF n < bound THEN n + 1 ELSE bound

\* "for attempt in range(6)" of _return_to_main_menu_from_menus
ESCAPE_ATTEMPTS == 6

\* process_all_services is called with the service list of the train on
\* screen, at its top, and base_dir just made
InitServices ==
    /\ max_services \in {-1} \cup 0..MaxLimit
    /\ nServices \in 1..MaxServices
    /\ svcUi \in {"faithful", "restless"}
    /\ svcPos = 0
    /\ service_index = 0
    /\ page = 0
    /\ previous_screenshot = None
    /\ prev_service_img = None
    /\ boxI = 0
    /\ svcpc = "box"
    /\ captureReturned = "-"
    /\ uiAt = "service_list"
    /\ escapes = 0
    /\ folders = {}
    /\ duplicates = 0
    /\ levelsLoaded = 0
    /\ loads = [e \in 0..(nServices - 1) |-> 0]

\* one pass of the for loop with a duplicate taking the place of the
\* previous-service image
process_all_services_box_keeps_duplicate ==
    /\ svcpc = "box"
    /\ boxI < visibleBoxes
    /\ LET curr_img == screenshot_service_box(boxI)
           service_dir == upTo(service_index, MaxServiceIndex)
       IN  IF _service_is_duplicate(curr_img)
           THEN /\ boxI' = boxI + 1
                /\ folders' = (folders \cup {service_dir}) \ {service_dir}
                /\ duplicates' = upTo(duplicates, MaxServiceIndex)
                /\ prev_service_img' = [shape |-> curr_img.shape, px |-> <<0, 0, 0>>]
                /\ UNCHANGED <<service_index, svcpc>>
           ELSE /\ service_index' = service_dir
                /\ folders' = folders \cup {service_dir}
                /\ prev_service_img' = curr_img
                /\ svcpc' = "load"
                /\ UNCHANGED <<boxI, duplicates>>
    /\ UNCHANGED <<max_services, page, previous_screenshot, nServices, svcPos,
                   svcUi, captureReturned, uiAt, escapes, levelsLoaded, loads,
                   otherThanServices>>

\* one pass of the for loop up to the duplicate check: service_index += 1,
\* the folder service_<service_index> is made, the box is clicked and its
\* screenshot taken; for a duplicate the screenshot and the folder are
\* removed and service_index -= 1
process_all_services_box ==
    /\ svcpc = "box"
    /\ boxI < visibleBoxes
    /\ LET curr_img == screenshot_service_box(boxI)
           service_dir == upTo(service_index, MaxServiceIndex)
       IN  IF _service_is_duplicate(curr_img)
           THEN /\ boxI' = boxI + 1
                /\ folders' = (folders \cup {service_dir}) \ {service_dir}
                /\ duplicates' = upTo(duplicates, MaxServiceIndex)
                /\ UNCHANGED <<service_index, prev_service_img, svcpc>>
           ELSE /\ service_index' = service_dir
                /\ folders' = folders \cup {service_dir}
                /\ prev_service_img' = curr_img
                /\ svcpc' = "load"
                /\ UNCHANGED <<boxI, duplicates>>
    /\ UNCHANGED <<max_services, page, previous_screenshot, nServices, svcPos,
                   svcUi, captureReturned, uiAt, escapes, levelsLoaded, loads,
                   otherThanServices>>

\* Enter twice and wait_for_level_load(click_x=x, click_y=y), which returns
\* with the level of the selected entry loaded, or raises TimeoutError
process_all_services_load ==
    /\ svcpc = "load"
    /\ \E loaded \in BOOLEAN :
         IF loaded
         THEN /\ svcpc' = "capture"
              /\ uiAt' = "level"
              /\ levelsLoaded' = upTo(levelsLoaded, MaxServiceIndex)
              /\ loads' = IF svcPos + boxI < nServices
                          THEN [loads EXCEPT ![svcPos + boxI] = upTo(@, 2)]
                          ELSE loads
         ELSE /\ svcpc' = "raised"
              /\ UNCHANGED <<uiAt, levelsLoaded, loads>>
    /\ UNCHANGED <<max_services, service_index, page, previous_screenshot,
                   prev_service_img, boxI, nServices, svcPos, svcUi,
                   captureReturned, escapes, folders, duplicates,
                   otherThanServices>>

\* capture_schedule(service_dir): the statement drops what the call returns
process_all_services_capture ==
    /\ svcpc = "capture"
    /\ \E returned \in {"None", "2_schedule.png"} : captureReturned' = returned
    /\ svcpc' = "exit"
    /\ UNCHANGED <<max_services, service_index, page, previous_screenshot,
                   prev_service_img, boxI, nServices, svcPos, svcUi, uiAt,
                   escapes, folders, duplicates, levelsLoaded, loads,
                   otherThanServices>>

\* exit_to_main_menu(), which leaves the level for the main menu or raises;
\* the service limit; navigate_to_service_list, which raises on a step of
\* the way or shows the list at its top; the scroll back to the page
process_all_services_exit ==
    /\ svcpc = "exit"
    /\ \E exited, navigated \in BOOLEAN :
           IF ~exited
           THEN svcpc' = "raised" /\ UNCHANGED <<svcPos, boxI, uiAt>>
           ELSE IF max_services # -1 /\ service_index >= max_services
           THEN svcpc' = "returned" /\ uiAt' = "main_menu" /\ UNCHANGED <<svcPos, boxI>>
           ELSE IF ~navigated
           THEN svcpc' = "raised" /\ uiAt' = "menu" /\ UNCHANGED <<svcPos, boxI>>
           ELSE /\ svcPos' = scroll_back(0, page)
                /\ uiAt' = "service_list"
                /\ boxI' = boxI + 1
                /\ svcpc' = "box"
    /\ UNCHANGED <<max_services, service_index, page, previous_screenshot,
                   prev_service_img, nServices, svcUi, captureReturned,
                   escapes, folders, duplicates, levelsLoaded, loads,
                   otherThanServices>>

\* the for loop is over: scroll to the next page and compare the capture of
\* the list region with the previous one; on a match break and
\* _return_to_main_menu_from_menus(), which returns when it locates the 'To
\* The Trains' tile before one of its ESCAPE_ATTEMPTS presses, or after the
\* last press with the main menu not confirmed; else begin the next page at
\* box 1
process_all_services_next_page ==
    /\ svcpc = "box"
    /\ boxI >= visibleBoxes
    /\ svcPos' = scroll_service_list_down(svcPos)
    /\ \E n \in IF svcUi = "restless" THEN {0, 1} ELSE {0} :
           LET current_page_screenshot == capture(svcPos', n)
           IN  IF /\ previous_screenshot # None
                  /\ current_page_screenshot.shape = previous_screenshot.shape
                  /\ SumAbsDiff(current_page_screenshot.px, previous_screenshot.px,
                                Len(current_page_screenshot.px))
                         < 5 * Len(current_page_screenshot.px)
               THEN /\ svcpc' = "returned"
                    /\ \E presses \in 1..ESCAPE_ATTEMPTS :
                         /\ escapes' = presses
                         /\ uiAt' \in IF presses < ESCAPE_ATTEMPTS
                                      THEN {"main_menu"}
                                      ELSE {"main_menu", "menu"}
                    /\ UNCHANGED <<previous_screenshot, page, boxI>>
               ELSE /\ previous_screenshot' = current_page_screenshot
                    /\ page' = upTo(page, MaxPages)
                    /\ boxI' = 1
                    /\ svcpc' = "box"
                    /\ UNCHANGED <<uiAt, escapes>>
    /\ UNCHANGED <<max_services, service_index, prev_service_img, nServices,
                   svcUi, captureReturned, folders, duplicates, levelsLoaded,
                   loads, otherThanServices>>

NextServices ==
    \/ process_all_services_box
    \/ process_all_services_load
    \/ process_all_services_capture
    \/ process_all_services_exit
    \/ process_all_services_next_page

InitServicesSpec ==
    /\ ClickIdle
    /\ FramesIdle
    /\ RunsIdle
    /\ ListIdle
    /\ CountIdle
    /\ SeekIdle
    /\ CaptureIdle
    /\ OverlapIdle
    /\ SeparatorIdle
    /\ CropIdle
    /\ ScheduleIdle
    /\ MainIdle
    /\ LevelIdle
    /\ InitServices

SpecServices == InitServicesSpec /\ [][NextServices]_vars

\* the loop is scheduled as long as it has a step to take
FairSpecServices ==
    InitServicesSpec /\ [][NextServices]_vars /\ WF_vars(NextServices)

-----------------------------------------------------------------------------
(* Properties of the click-and-verify protocol, checked under Spec *)

\* C1: with verify, once a poll of the verification window that follows the
\* k-th click sees the reference absent, wait_and_click has returned True
\* with exactly k mouseDown/mouseUp pairs, 1 <= k <= RETRY_MAX, and issues
\* no further click.
C1_AbsentAfterKthClick ==
    absentAt # 0 =>
        /\ verify
        /\ absentAt \in 1..RETRY_MAX
        /\ absentAt = attempt
        /\ pc = "done"
        /\ result = "True"
        /\ nDown = absentAt
        /\ nUp = absentAt
        /\ nMove = absentAt

\* the reference disappears after the second of three allowed attempts
C1_Witness ==
    /\ RETRY_MAX = 3
    /\ verify
    /\ scTimeouts = 1
    /\ absentAt = 2
    /\ result = "True"
    /\ nDown = 2 /\ nUp = 2

\* C2: with verify, no more than RETRY_MAX clicks are ever issued, and when
\* every one of the RETRY_MAX verification windows has ended with the
\* reference still visible, wait_and_click has made exactly RETRY_MAX clicks
\* and returns False (it does not raise).
C2_StillVisibleGivesUp ==
    /\ nDown <= RETRY_MAX
    /\ nUp <= nDown
    /\ scTimeouts <= RETRY_MAX
    /\ (pc = "done" /\ scTimeouts = RETRY_MAX) =>
           /\ result = "False"
           /\ nDown = RETRY_MAX
           /\ nUp = RETRY_MAX
    /\ (pc = "done" /\ result = "False" /\ wfiRet = "loc") => scTimeouts = RETRY_MAX

C2_Witness ==
    /\ pc = "done"
    /\ verify
    /\ scTimeouts = RETRY_MAX
    /\ result = "False"
    /\ nDown = RETRY_MAX

\* C3 (as claimed): whenever the re-locate step of a retry does not find the
\* reference, by a not-found condition or by a None result, wait_and_click
\* returns True and issues no further click.
C3_RelocateMissIsSuccess ==
    relocMissAt # 0 =>
        /\ pc = "done"
        /\ result = "True"
        /\ nDown = relocMissAt

\* C4: when wait_for_image returns None, wait_and_click returns False and
\* no actuation call (moveTo, mouseDown, mouseUp) has been issued.
C4_AbsentFailsWithoutActuation ==
    wfiRet = "none" =>
        /\ nMove = 0 /\ nDown = 0 /\ nUp = 0
        /\ pc \in {"wac_start", "done"}
        /\ (pc = "done" => result = "False")

C4_Witness ==
    /\ wfiRet = "none"
    /\ attempts >= 1
    /\ pc = "done"
    /\ result = "False"
    /\ nMove = 0

\* C5: with verify=False, once the reference is located, wait_and_click
\* makes exactly one click and returns True, and _screen_changed never
\* polls the screen.
C5_NoVerifyClicksOnce ==
    (~verify /\ wfiRet = "loc") =>
        /\ ~scPolled
        /\ scTimeouts = 0
        /\ nDown <= 1
        /\ attempt <= 1
        /\ (pc = "done" =>
               /\ result = "True"
               /\ nMove = 1 /\ nDown = 1 /\ nUp = 1)

C5_Witness ==
    /\ ~verify
    /\ wfiRet = "loc"
    /\ pc = "done"
    /\ result = "True"
    /\ nDown = 1

\* C6: wait_for_image returns None only once the timeout has elapsed, and the
\* timeout path never raises; a not-found condition raised in a poll is
\* absorbed and the loop goes on to count the poll; every location returned
\* comes from a poll that started before the deadline.
C6_WaitForImage ==
    /\ wfiRet = "none" => ~(elapsed < timeout)
    /\ wfiRet = "raise" => (faultSeen /\ 0 <= pollStart /\ pollStart < timeout)
    /\ absorbed <= attempts + (IF pc = "wfi_count" THEN 1 ELSE 0)
    /\ wfiRet = "loc" =>
           /\ 0 <= pollStart /\ pollStart < timeout
           /\ (pc = "wac_start" => location \in Locations)
    /\ (wfiRet = "pending" /\ pc # "done") => pc \in {"wfi_loop", "wfi_count"}

\* a timeout that follows absorbed not-found conditions and a logged poll
C6_Witness ==
    /\ wfiRet = "none"
    /\ absorbed >= 2
    /\ attempts >= 5
    /\ best >= 0
    /\ result = "False"

\* C7 (as claimed): an unreadable or missing reference file met by the
\* matcher is fatal to the caller: it never ends as an absent result.
C7_FaultIsFatal ==
    (faultSeen /\ pc = "done") => result = "raise"

-----------------------------------------------------------------------------
(* Properties of the frame-difference primitive, checked under SpecFrames *)

\* C8: identical frames do not count as changed; equal-shape frames whose
\* mean absolute difference is at least 5.0 count as changed; frames of
\* different shape count as changed; and changed(a, b) = changed(b, a).
C8_ChangedPrimitive ==
    fpc = "both" =>
        /\ (frameA = frameB => matchAB)
        /\ (frameA.shape = frameB.shape /\ MeanDistanceAtLeast(frameA, frameB, 5))
               => ~matchAB
        /\ (frameA.shape = frameB.shape /\ ~MeanDistanceAtLeast(frameA, frameB, 5))
               => matchAB
        /\ (frameA.shape # frameB.shape => (~matchAB /\ ~matchBA))
        /\ matchAB = matchBA

\* two equal-shape frames whose mean absolute difference is exactly 5.0
C8_Witness ==
    /\ fpc = "both"
    /\ frameA.shape = frameB.shape
    /\ frameA # frameB
    /\ Len(frameA.px) = 2
    /\ TotalDistance(frameA.px, frameB.px, DOMAIN frameA.px) = 5 * Len(frameA.px)
    /\ ~matchAB /\ ~matchBA

-----------------------------------------------------------------------------
(* Properties of the run-length border scanner, checked under SpecRuns *)

Height == Len(row_has_border)
\* the rows, numbered from 0 as in the code
Rows == 0..(Height - 1)
Matching == {i \in Rows : row_has_border[i + 1]}
RunRows(run) == {i \in Rows : run[1] <= i /\ i < run[2]}

\* C9: the runs returned are half-open intervals [start,end) inside the
\* strip, in increasing row order, pairwise disjoint and non-adjacent; their
\* union is exactly the set of matching rows; a run that reaches the last
\* row ends at the strip height.
C9_RunsAreMaximal ==
    rpc \in {"scanned", "counted"} =>
        /\ \A k \in 1..Len(runs) :
              /\ 0 <= runs[k][1]
              /\ runs[k][1] < runs[k][2]
              /\ runs[k][2] <= Height
        /\ \A k \in 1..(Len(runs) - 1) : runs[k][2] < runs[k + 1][1]
        /\ UNION {RunRows(runs[k]) : k \in 1..Len(runs)} = Matching
        /\ (Height > 0 /\ row_has_border[Height]) =>
              (Len(runs) > 0 /\ runs[Len(runs)][2] = Height)

\* two runs, the second one open at the last row and closed at the height
C9_Witness ==
    /\ rpc = "scanned"
    /\ Len(runs) >= 2
    /\ row_has_border[Height]
    /\ runs[Len(runs)][2] = Height
    /\ runs[1][1] > 0

\* row s starts a maximal sequence of at least n consecutive matching rows
StartsTallRun(s, n) ==
    /\ s \in Matching
    /\ (s - 1) \notin Matching
    /\ \A i \in s..(s + n - 1) : i \in Matching

\* C10: the visible-entry count is the number of runs of height at least 40,
\* which is the number of maximal sequences of at least 40 matching rows; a
\* run of height exactly 40 is an entry and one of height 39 is not; the
\* strip with runs [10,20) and [50,95) has the one entry (50,95).
C10_VisibleCount ==
    rpc = "counted" =>
        /\ visible = Cardinality({k \in 1..Len(runs) : runs[k][2] - runs[k][1] >= 40})
        /\ visible = Cardinality({s \in Rows : StartsTallRun(s, 40)})
        /\ \A k \in 1..Len(runs) :
              /\ runs[k][2] - runs[k][1] = 40 => \E j \in 1..Len(entries) : entries[j] = runs[k]
              /\ runs[k][2] - runs[k][1] = 39 => \A j \in 1..Len(entries) : entries[j] # runs[k]
        /\ row_has_border = ExampleStrip =>
              /\ runs = << <<10, 20>>, <<50, 95>> >>
              /\ entries = << <<50, 95>> >>
              /\ visible = 1

\* a strip with a run of height 40 and a run of height 39: one entry
C10_Witness ==
    /\ rpc = "counted"
    /\ \E k \in 1..Len(runs) : runs[k][2] - runs[k][1] = 40
    /\ \E k \in 1..Len(runs) : runs[k][2] - runs[k][1] = 39
    /\ visible = 1

-----------------------------------------------------------------------------
(* Properties of count_trains, checked under SpecCount *)

\* the scrolls of this call after which the capture differs from the
\* capture immediately before it
SuccessfulScrolls == changes

\* C11: count_trains returns the visible count of the first frame plus the
\* number of successful scrolls, a scroll being successful exactly when the
\* frame captured after it differs from the frame captured immediately
\* before it; the scroll that produced a matching frame is not counted.
C11_VisiblePlusSuccessfulScrolls ==
    cpc = "done" =>
        /\ total = visible_count + SuccessfulScrolls
        /\ visible_count = count_visible_trains
        /\ endedBy = "match" =>
              /\ forward = SuccessfulScrolls + 1
              /\ ~Changed(prev_img, lastCapture)

\* a list that ends after three successful scrolls; the fourth is not counted
C11_Witness ==
    /\ cpc = "done"
    /\ endedBy = "match"
    /\ forward = 4
    /\ total = visible_count + 3
    /\ visible_count = 3

\* C12: count_trains issues at most 30 forward scrolls on any UI behaviour,
\* one per iteration begun, so the loop ends; the value returned is at most
\* the visible count plus 30.
C12_AtMostThirtyScrolls ==
    /\ forward <= MAX_COUNT_SCROLLS
    /\ iter <= MAX_COUNT_SCROLLS
    /\ cpc = "loop" => forward = iter
    /\ cpc = "done" => total <= visible_count + MAX_COUNT_SCROLLS

\* a region that changes on every capture over a list that cannot scroll
C12_Witness ==
    /\ cpc = "done"
    /\ ui = "restless"
    /\ MaxPos = 0
    /\ endedBy = "ceiling"
    /\ forward = MAX_COUNT_SCROLLS
    /\ total = visible_count + MAX_COUNT_SCROLLS

\* C13 as stated: after count_trains returns, the list is at the scroll
\* position it was at when count_trains was called.
C13_PositionRestored ==
    cpc = "done" => listPos = startPos

\* C13, amended: the position is restored from any start when the capture
\* changes exactly when the list moves, and from the top when it changes at
\* least when the list moves.
C13_PositionRestoredWhenFaithful ==
    cpc = "done" =>
        ((ui = "faithful" \/ startPos = 0) => (listPos = startPos /\ back = scrolls))

\* stopped at the ceiling of 30, from a start below the top
C13_Witness ==
    /\ cpc = "done"
    /\ ui = "faithful"
    /\ startPos > 0
    /\ endedBy = "ceiling"
    /\ back = MAX_COUNT_SCROLLS
    /\ listPos = startPos

\* C14: on a list that does not change, a second call of count_trains
\* returns what the first returned, and the capture after the second call
\* equals the capture before the first.
C14_CountIsIdempotent ==
    (cpc = "done" /\ calls = 2 /\ ui = "faithful") =>
        /\ total = firstTotal
        /\ capture(listPos, noise) = firstCapture

\* two calls that each scrolled to the end of the list and back
C14_Witness ==
    /\ cpc = "done" /\ calls = 2 /\ ui = "faithful"
    /\ scrolls > 0
    /\ startPos > 0
    /\ total = firstTotal
    /\ capture(listPos, noise) = firstCapture

\* C34: on a list of N entries of which V are visible at the top position,
\* which moves one entry per scroll unit and stops at its end, whose region
\* changes exactly when the list moves, and with N - V <= 30, count_trains
\* called at the top position returns exactly N.
C34_CountIsListLength ==
    (/\ cpc = "done" /\ calls = 1 /\ ui = "faithful" /\ startPos = 0
     /\ nTrains - count_visible_trains <= MAX_COUNT_SCROLLS) =>
        total = nTrains

\* a list that is exactly 30 scrolls longer than the box, counted up to the
\* ceiling of the loop
C34_Witness ==
    /\ cpc = "done" /\ calls = 1 /\ ui = "faithful" /\ startPos = 0
    /\ nTrains - count_visible_trains = MAX_COUNT_SCROLLS
    /\ endedBy = "ceiling"
    /\ total = nTrains

-----------------------------------------------------------------------------
(* Properties of click_train, checked under SpecSeek *)

C16_SeekToLastOfSeven ==
    (/\ spc = "done" /\ ui = "faithful"
     /\ nTrains = 7 /\ MaxPos = 4 /\ index = 6 /\ seekStart <= TOP_OVERSCROLL) =>
        /\ seekForward = 5
        /\ scrolls_done = 4
        /\ offset = 2
        /\ clickedAt[2] = TRAIN_BOX_TOP + TRAIN_FIRST_Y_OFFSET + 2 * TRAIN_BOX_STRIDE
        /\ listPos + offset = index

\* the run of C16, from a list left at its end
C16_Witness ==
    /\ spc = "done" /\ ui = "faithful"
    /\ nTrains = 7 /\ viewSlots = 3 /\ index = 6
    /\ seekStart = 4
    /\ stopped
    /\ scrolls_done = 4 /\ offset = 2
    /\ clickedAt = <<3443, 653>>

-----------------------------------------------------------------------------
(* Properties of the schedule capture loop, checked under SpecCapture *)

\* C17: the capture loop stops when a capture matches the last retained
\* frame or when 20 frames are retained: it retains between 1 and 20
\* frames, it does not retain the matching frame, no two consecutive
\* retained frames match, and it scrolls exactly once after each retained
\* frame; every iteration takes a capture and at most 21 are taken.
C17_CaptureLoop ==
    /\ Len(frames) <= max_frames
    /\ capScrolls = Len(frames)
    /\ frame_idx = Len(frames)
    /\ capCaptures = Len(frames) + (IF capEndedBy = "match" THEN 1 ELSE 0)
    /\ \A k \in 1..(Len(frames) - 1) : Changed(frames[k], frames[k + 1])
    /\ cappc = "stitch" =>
          /\ Len(frames) >= 1
          /\ capEndedBy = "match" => ~Changed(frames[Len(frames)], img)
          /\ capEndedBy = "ceiling" <=> Len(frames) = max_frames
          /\ (capEndedBy = "ceiling" /\ Len(frames) > 1)
                 => Changed(frames[Len(frames) - 1], img)

\* a panel that moved twice and then stood still: three frames retained
C17_Witness ==
    /\ cappc = "stitch"
    /\ panelUi = "faithful"
    /\ capEndedBy = "match"
    /\ Len(frames) = 3
    /\ capCaptures = 4
    /\ capScrolls = 3
    /\ img = frames[3]

-----------------------------------------------------------------------------
(* Properties of find_nearest_separator, checked under SpecSeparator *)

\* row is a row of the image and a separator row
SeparatorAt(row) ==
    /\ 0 <= row /\ row < Len(sepImg)
    /\ is_separator_row(sepImg, row)

\* the distances within the search range at which there is a separator row
SeparatorDistances ==
    {d \in 0..(search_range - 1) :
        SeparatorAt(target_row - d) \/ SeparatorAt(target_row + d)}

\* C19 (as claimed): when a separator is found, the row returned is the
\* first (topmost) row of its band, for bands above and below the target.
C19_SnapsToBandTop ==
    (seppc = "done" /\ SeparatorDistances # {}) =>
        /\ SeparatorAt(sepResult)
        /\ ~SeparatorAt(sepResult - 1)

\* C20: the row returned is a separator row of the image at the least
\* distance 0..49 from the target, the upper one when two are at that
\* distance; when there is none, it is the target row, inside the image or
\* not.
C20_NearestWithinRange ==
    seppc = "done" =>
        IF SeparatorDistances = {}
        THEN sepResult = target_row
        ELSE LET d == CHOOSE x \in SeparatorDistances :
                          \A y \in SeparatorDistances : x <= y
             IN  /\ SeparatorAt(sepResult)
                 /\ sepResult = (IF SeparatorAt(target_row - d)
                                 THEN target_row - d
                                 ELSE target_row + d)

\* a separator row ten rows above the target and one ten rows below it
C20_Witness ==
    /\ seppc = "done"
    /\ target_row = 30
    /\ SeparatorAt(20) /\ SeparatorAt(40)
    /\ \A d \in 0..9 : ~SeparatorAt(30 - d) /\ ~SeparatorAt(30 + d)
    /\ sepResult = 20

-----------------------------------------------------------------------------
(* Properties of find_overlap and stitch_images, checked under SpecOverlap *)

\* the frames of the last fold step
PrevFrame == images[stitchIdx - 1]
CurrFrame == images[stitchIdx]

\* the rows of prev at which a strip of band_height rows begins
StripRows == 0..(Len(PrevFrame) - band_height)

\* the smallest of the rows whose strip is nearest to the band
NearestStripRow ==
    LET d == [x \in StripRows |-> strip_diff(PrevFrame, CurrFrame, x, band_height)]
    IN  CHOOSE x \in StripRows :
            /\ \A y \in StripRows : d[x] <= d[y]
            /\ \A y \in StripRows : d[y] = d[x] => x <= y

\* C18 (as claimed): find_overlap returns height(prev) - best_row + 5 for
\* the smallest row of prev whose 40-row strip minimises the mean absolute
\* difference to the band at row 5 of curr, if that minimum is below 5.0,
\* and 0 otherwise; on 0, stitch_images appends the whole new frame and
\* removes no row of the result.
C18_OverlapOfBestRow ==
    (stpc \in {"fold", "done"} /\ stitchIdx >= 2) =>
        /\ overlap =
             (IF strip_diff(PrevFrame, CurrFrame, NearestStripRow, band_height)
                   < 5 * 3 * band_height
              THEN Len(PrevFrame) - NearestStripRow + band_start
              ELSE 0)
        /\ overlap = 0 => stitched = stitchedBefore \o CurrFrame

\* C21 (as claimed): the accumulator never shrinks while stitching: after
\* each fold step of stitch_images over the next frame the accumulated
\* result has at least as many rows as before the step.
C21_AccumulatorNeverShrinks ==
    (stpc \in {"fold", "done"} /\ stitchIdx >= 2) =>
        Len(stitched) >= Len(stitchedBefore)

\* the two frames share 30 rows and row 12 of the second is a separator
EngineeredPair ==
    /\ Len(images) = 2
    /\ \A i \in 1..30 : images[2][i] = images[1][FrameRows - 30 + i]
    /\ \A i \in 1..(FrameRows - 30) : \A j \in 1..FrameRows : images[1][i] # images[2][j]
    /\ is_separator_row(images[2], 12)

\* the separator rows of the stitched image
SeparatorRows == {i \in 0..(Len(stitched) - 1) : is_separator_row(stitched, i)}

\* C22 (as claimed): stitching two frames with a 30-row overlap and a
\* separator line on row 12 of the second gives height(frame0) +
\* height(frame1) - 30 rows (both cuts snap to the one separator, row 12
\* of the overlap), and the separator is in the output exactly once.
C22_EngineeredOverlap ==
    (EngineeredPair /\ stpc = "done") =>
        /\ Len(stitched) = Len(images[1]) + Len(images[2]) - 30
        /\ Cardinality(SeparatorRows) = 1

\* the two frames are cut from the document with a band of k separator
\* rows from row a on, the second scrolled by shift rows
CutFromDocument(a, k, shift) ==
    /\ Len(images) = 2
    /\ images[1] = Frame("distinct", a, k, 0, 0)
    /\ images[2] = Frame("distinct", a, k, shift, 0)

\* C37 (as claimed): for two frames cut from one document of unambiguous
\* content, the second scrolled further and overlapping the first by at
\* least 46 rows, with a separator within 49 rows of the overlap boundary
\* (the document row below the last row of the first frame), stitch_images
\* returns the document rows from the top of the first frame to the bottom
\* of the second, each once and in order.
C37_StitchIsTheDocument ==
    stpc = "done" =>
        \A shift \in 1..(FrameRows - 46), k \in 1..MaxBandRows,
           a \in 0..(FrameRows + MaxShift - 1) :
            (/\ CutFromDocument(a, k, shift)
             /\ a + k <= FrameRows + shift
             /\ FrameRows - a < search_range /\ a - FrameRows < search_range) =>
                stitched = [i \in 1..(FrameRows + shift) |->
                               DocumentRow("distinct", a, k, i - 1)]

-----------------------------------------------------------------------------
(* Properties of crop_schedule, checked under SpecCrop *)

\* the rows of the input whose central strip matches either box colour
BoxRows ==
    {i \in 0..(Len(cropImg.rows) - 1) :
        \E k \in 1..Len(BOX_COLORS) : strip_matches(cropImg.rows[i + 1], BOX_COLORS[k])}

LastBoxRow == CHOOSE i \in BoxRows : \A j \in BoxRows : j <= i

\* C23 (as claimed): crop_schedule returns exactly rows [0, r + 1) of its
\* input, r being the largest row whose central strip matches either box
\* colour (an image whose last row is content keeps its full height); when
\* no row matches the height is unchanged; the width is min(width, 1470).
C23_CropBelowLastBoxRow ==
    croppc = "done" =>
        /\ cropped.rows = (IF BoxRows = {}
                           THEN cropImg.rows
                           ELSE SubSeq(cropImg.rows, 1, LastBoxRow + 1))
        /\ cropped.width = Smaller(cropImg.width, 1470)

\* C38 (as claimed): crop_schedule is idempotent: cropping the image it
\* returned returns that image again.
C38_CropIsIdempotent ==
    croppc = "done" => crop_schedule(cropped) = cropped

-----------------------------------------------------------------------------
(* Properties of capture_schedule and of the calls of stitch_images,       *)
(* checked under SpecSchedule                                              *)

\* x is an image: a sequence of rows
IsImage(x) == DOMAIN x = 1..Len(x)

\* C24: stitch_images returns None exactly when given zero frames, and the
\* single frame unchanged when given one; capture_schedule returns None,
\* saves no file and presses no closing Escape (one Escape, the opening
\* one) whenever the Schedule button is not found or stitching yields None.
C24_AbsentResults ==
    /\ stpc \in {"fold", "done"} =>
          IF Len(images) = 0 THEN stitched = "None" ELSE IsImage(stitched)
    /\ (stpc = "done" /\ Len(images) = 1) => stitched = images[1]
    /\ (cappc = "returned" /\ (~schClicked \/ schStitched = None)) =>
          /\ schReturn = "None"
          /\ schSaved = <<>>
          /\ schEscapes = 1

\* capture_schedule has returned without the Schedule button, and the calls
\* of stitch_images with no frame and with one frame have returned
C24_Witness ==
    /\ cappc = "returned" /\ ~schClicked /\ schReturn = "None"
    /\ stpc = "done" /\ Len(images) = 0 /\ stitched = "None"

Phases == <<"CAPTURING", "STITCHING", "CROPPING", "DONE">>

\* C30: the phases are entered in the order CAPTURING, STITCHING, CROPPING,
\* DONE, none skipped or repeated; stitching starts only after the capture
\* loop has ended; the crop is applied once, to the stitched result; the
\* image is saved once, and it is the cropped one; nothing is saved when
\* stitching returns None.
C30_PhaseOrder ==
    /\ Len(schPhases) <= Len(Phases)
    /\ schPhases = SubSeq(Phases, 1, Len(schPhases))
    /\ Len(schPhases) >= 2 => (cappc \notin {"open", "loop"} /\ capEndedBy # "none")
    /\ Len(schPhases) >= 3 => schCropped = [cropped |-> schStitched]
    /\ Len(schSaved) <= 1
    /\ schSaved # <<>> => (schPhases = Phases /\ schSaved = <<schCropped>>)
    /\ schReturn = "2_schedule.png" => Len(schSaved) = 1
    /\ (Len(schPhases) >= 2 /\ schStitched = None) => schSaved = <<>>

\* capture_schedule has returned a path after a loop that retained at
\* least two frames
C30_Witness ==
    /\ cappc = "returned" /\ schReturn = "2_schedule.png"
    /\ Len(frames) >= 2 /\ schPhases = Phases /\ schSaved = <<schCropped>>

-----------------------------------------------------------------------------
(* Properties of main, checked under SpecMain *)

\* the templates some engine operation uses without an existence guard
Unguarded == {u.template : u \in {v \in TemplateUses : ~v.guarded}}

\* C28 (as claimed): when the file of a template that some engine operation
\* uses without an existence guard is missing, the process exits with
\* status 1 before the game is launched and before any engine operation.
C28_MissingTemplateIsStartupFatal ==
    (mainpc # "check" /\ missing \cap Unguarded # {}) =>
        /\ mainpc = "exited" /\ exitStatus = 1
        /\ ~launched
        /\ engineOps = 0

\* the wait of the last itinerary step reported absence or failure
AbsenceReported == reported \in {"False", "None"}

\* C32: a navigator step raises TimeoutError exactly when its wait_and_click
\* returned False or its wait_for_image returned None; after that no later
\* step of the itinerary is executed and main exits with status 1; a
\* KeyboardInterrupt makes main exit with status 0.
C32_AbsenceIsEscalated ==
    /\ AbsenceReported =>
          /\ caught = "TimeoutError"
          /\ mainpc = "exited" /\ exitStatus = 1
          /\ step <= Len(Itinerary) /\ engineOps = step
    /\ (caught = "TimeoutError" /\ step <= Len(Itinerary)) => AbsenceReported
    /\ mainpc = "itinerary" => (engineOps = step - 1 /\ caught = "none")
    /\ caught = "TimeoutError" => (mainpc = "exited" /\ exitStatus = 1)
    /\ caught = "KeyboardInterrupt" => (mainpc = "exited" /\ exitStatus = 0)

\* wait_for_route_screen, the fifth step, got None from wait_for_image
C32_Witness ==
    /\ reported = "None"
    /\ caught = "TimeoutError"
    /\ step = 5 /\ engineOps = 5
    /\ mainpc = "exited" /\ exitStatus = 1

-----------------------------------------------------------------------------
(* Properties of wait_for_level_load, checked under SpecLevel *)

\* C27 (as claimed): no two actuation calls are issued consecutively
\* without a sleep between them, also on the path that presses Enter to
\* load a level and then detects and clicks the driver-selection screen.
C27_SettleDelayBetweenActuations ==
    bare = {}

\* C29 (as claimed): once a click has been retried RETRY_MAX times and the
\* clicked element is still visible, TimeoutError is raised and the session
\* does not proceed; here the 'Get Started' click of wait_for_level_load.
C29_StuckClickIsFatal ==
    (lvlpc # "click" /\ startClicks = RETRY_MAX /\ still_visible) =>
        lvlpc = "raised"

-----------------------------------------------------------------------------
(* Properties of process_all_services, checked under SpecServices and
   FairSpecServices *)

\* C25: whenever capture_schedule has returned None inside
\* process_all_services, the service loop acts on that result: it is
\* capturing again or has stopped with an error, and does not go on to
\* exit_to_main_menu as after a successful capture.
C25_FailedCaptureIsActedOn ==
    captureReturned = "None" => svcpc \in {"capture", "raised"}

\* C26: the page loop of process_all_services terminates, also when
\* max_services is None and consecutive page captures never match: every run
\* of the service loop returns or raises.
C26_PageLoopTerminates ==
    <>(svcpc \in {"returned", "raised"})

\* how a run of wait_for_level_load that has left its detection windows
\* ended them: with a screen seen, or with none in RETRY_MAX windows
NoScreenSeen == lvlpc # "window" /\ windows = RETRY_MAX /\ found = "None"

\* the part C33 shares with the code: at most RETRY_MAX detection windows;
\* the service box is clicked again only after a window that saw nothing
\* and before the next one, only when click coordinates were given, hence
\* at most RETRY_MAX - 1 times; the driver screen, when seen, is clicked
\* exactly once before the wait for 'Get Started'
LevelLoadWindows ==
    /\ windows <= RETRY_MAX
    /\ reclicks <= RETRY_MAX - 1
    /\ ~click_given => reclicks = 0
    /\ (click_given /\ lvlpc \in {"window", "raised"} /\ found = "None" /\ windows > 0) =>
           reclicks = lvlAttempt - 1
    /\ (click_given /\ found # "None") => reclicks = windows - 1
    /\ driverClicks = IF found = "driver" THEN 1 ELSE 0
    /\ NoScreenSeen => lvlpc = "raised"

\* C33 (as claimed): the bounds above, and TimeoutError is raised exactly
\* when no driver or get-started screen is seen in any window.
C33_RaisesExactlyWhenNoScreen ==
    /\ LevelLoadWindows
    /\ lvlpc = "raised" <=> NoScreenSeen

\* C33 (amended): the bounds above, and TimeoutError is raised exactly when
\* no screen is seen in any window or when, after a screen was seen, 'Get
\* Started' is not located within SCREEN_TIMEOUT and so is never clicked.
C33_RaisesOnNoScreenOrNoGetStarted ==
    /\ LevelLoadWindows
    /\ lvlpc = "raised" <=> (NoScreenSeen \/ (found # "None" /\ lvlpc = "raised" /\ startClicks = 0))
    /\ (lvlpc = "raised" /\ found # "None") => (windows <= RETRY_MAX /\ click_attempt = 0)

\* the driver screen seen in the second window, after one more click on the
\* service box, and clicked; 'Get Started' never appeared
C33_Witness ==
    /\ lvlpc = "raised"
    /\ found = "driver"
    /\ windows = 2
    /\ reclicks = 1
    /\ driverClicks = 1

\* C31 (as claimed): on every normal return of process_all_services, at the
\* service limit or at the natural end of the list after up to 6 Escape
\* presses, the game is at the main menu.
C31_ReturnsAtMainMenu ==
    svcpc = "returned" => uiAt = "main_menu"

\* the entries of the list whose level was loaded more than once
LoadedTwice == {e \in DOMAIN loads : loads[e] > 1}

\* C36 (as claimed): in a run with no service limit, no entry of the list is
\* loaded (and captured) more than once, also when the list fits on one
\* page and when the scroll to the last page is stopped by the list's end.
C36_EachServiceAtMostOnce ==
    max_services = -1 => LoadedTwice = {}

\* the step skips a box as a duplicate
SkipsDuplicate == svcpc = "box" /\ svcpc' = "box" /\ boxI' = boxI + 1

\* C39: at the start of every box iteration and at every return the
\* folders under base_dir are exactly service_1 .. service_<service_index>;
\* a box skipped as a duplicate leaves no folder and no gap, and changes
\* neither service_index nor the previous-service image.
C39_FoldersMatchIndex ==
    [][/\ (svcpc' \in {"box", "returned"} /\ service_index' < MaxServiceIndex) =>
              folders' = 1..service_index'
       /\ (SkipsDuplicate /\ service_index < MaxServiceIndex) =>
              /\ service_index' = service_index
              /\ prev_service_img' = prev_service_img
              /\ folders' = folders]_vars

\* a run that skipped a box as a duplicate and went on to a later service
C39_Witness ==
    /\ svcpc = "box"
    /\ duplicates > 0
    /\ service_index > 1 /\ service_index < MaxServiceIndex
    /\ folders = 1..service_index

\* C40 (as claimed): with a service limit max_services >= 0,
\* process_all_services loads at most max_services levels, and at the limit
\* it returns right after exit_to_main_menu: the game is at the main menu,
\* not navigated back to the list.
C40_AtMostMaxServicesLevels ==
    max_services # -1 =>
        /\ levelsLoaded <= max_services
        /\ (svcpc = "returned" /\ service_index >= max_services /\ escapes = 0) =>
               uiAt = "main_menu"

====
